---- MODULE Spec2Model ----
(***************************************************************************)
(* A model of src/app.py: the option-chain scanner of the repository.      *)
(*                                                                         *)
(*   Spec       the realtime sessions: the socket handlers and the         *)
(*              background loops they launch (app.py 842-898)              *)
(*   SpecFetch  one call of get_json: the retry loop with session          *)
(*              re-priming (app.py 46-69)                                  *)
(*   SpecScan   one call of scan_symbols over the signal engine            *)
(*              (app.py 79-277)                                            *)
(*   SpecSurge  successive premium-surge requests over the process-wide    *)
(*              history cache (app.py 715-839)                             *)
(*   SpecEngine parse_rows, nearest_strike_iv and get_straddle_info called *)
(*              on one document (app.py 79-157)                            *)
(*   SpecRank   the ranking of the events of one premium-surge scan        *)
(*              (app.py 829-839)                                           *)
(*   SpecLtp    one strategy/LTP spread scan (app.py 366-700)              *)
(*   SpecBreakout  one POST /api/breakout_scan request: the validation of  *)
(*              its payload and the scan it runs (app.py 309-327)          *)
(*   SpecRace   two premium-surge requests served by two threads           *)
(*              (async_mode="threading", app.py 173) that observe the      *)
(*              same strike, statement by statement (app.py 755-791)       *)
(*                                                                         *)
(* Every specification keeps the variables of the other parts unchanged.   *)
(***************************************************************************)
EXTENDS Integers, Sequences, FiniteSets, TLC

VARIABLES
    realtime_tasks,   \* _realtime_tasks: sid -> [running]            (app.py 176)
    loops,            \* the background tasks started so far, in start order
    sidState,         \* each socket id: "new", "connected" or "gone"
    fpc,              \* get_json: "idle", "loop", "returned", "raised", "failed"
    attempt,          \* get_json: iterations of "for _ in range(retries)" begun
    fetchLog,         \* get_json: what it did so far, in order
    fetchResult,      \* get_json: the value returned or the error raised
    jsonErrorCaught,  \* whether r.json()'s error is a requests.RequestException
    scanPc,           \* scan_symbols: "idle", "loop", "done"
    scanArgs,         \* scan_symbols: symbols (line 186), thr, side, overrides
    scanFeed,         \* scan_symbols: what the upstream gave for each symbol so far
    scanOut,          \* scan_symbols: out
    surgePc,          \* api_premium_surge: "idle", "loop"
    surgeArgs,        \* api_premium_surge: symbols, min_pct of the request
    surgeFeed,        \* api_premium_surge: the upstream's answer for each symbol so far
    surgeOut,         \* api_premium_surge: out, then the ranked list returned
    PREV_SURGE_CACHE, \* (symbol, expiry, strike) -> [CE, PE] histories (app.py 715)
    surgeObs,         \* every price ever appended under a key, in arrival order
    engDoc,           \* the raw document handed to parse_rows
    engExpiry,        \* chosen_expiry of that call ("" is None)
    engSnap,          \* what parse_rows returned, or that it raised
    engNearest,       \* what nearest_strike_iv returned for each side
    engStraddle,      \* what get_straddle_info returned, or that it raised
    rankIn,           \* the events a premium-surge scan collected (out, line 733)
    rankOut,          \* the list it returns for them (line 839)
    ltpPc,            \* where the api_strategy_ltp_scan call stands
    ltpArgs,          \* its inputs, as lines 368-381 read them
    ltpFeed,          \* what the upstream answered for each symbol so far
    ltpOut,           \* out (line 604)
    boPc,             \* api_breakout_scan: "idle", "scan", "answered"
    boReq,            \* the JSON payload of the request (data, line 311)
    boAnswer,         \* the HTTP status and the error text of the answer
    racePc,           \* each thread's position in lines 755-791
    raceLocal,        \* each thread's locals: ce, min_pct, cache (line 758), out
    raceCache,        \* PREV_SURGE_CACHE[key].get(strike): a record's identity, 0 if none
    raceHeap,         \* the CE deque of every record created so far, by identity
    raceStart         \* the CE history of the strike before the two requests

rtVars == <<realtime_tasks, loops, sidState>>

fetchVars == <<fpc, attempt, fetchLog, fetchResult, jsonErrorCaught>>

scanVars == <<scanPc, scanArgs, scanFeed, scanOut>>

surgeVars == <<surgePc, surgeArgs, surgeFeed, surgeOut, PREV_SURGE_CACHE, surgeObs>>

engVars == <<engDoc, engExpiry, engSnap, engNearest, engStraddle>>

rankVars == <<rankIn, rankOut>>

ltpVars == <<ltpPc, ltpArgs, ltpFeed, ltpOut>>

boVars == <<boPc, boReq, boAnswer>>

raceVars == <<racePc, raceLocal, raceCache, raceHeap, raceStart>>

\* What a step of one part leaves alone: the variables of the other parts.
notRT == <<fetchVars, scanVars, surgeVars, engVars, rankVars, ltpVars, boVars, raceVars>>

notFetch == <<rtVars, scanVars, surgeVars, engVars, rankVars, ltpVars, boVars, raceVars>>

notScan == <<rtVars, fetchVars, surgeVars, engVars, rankVars, ltpVars, boVars, raceVars>>

notSurge == <<rtVars, fetchVars, scanVars, engVars, rankVars, ltpVars, boVars, raceVars>>

notEng == <<rtVars, fetchVars, scanVars, surgeVars, rankVars, ltpVars, boVars, raceVars>>

notRank == <<rtVars, fetchVars, scanVars, surgeVars, engVars, ltpVars, boVars, raceVars>>

notLtp == <<rtVars, fetchVars, scanVars, surgeVars, engVars, rankVars, boVars, raceVars>>

\* A step of the breakout route also moves the scan it runs.
notBo == <<rtVars, fetchVars, surgeVars, engVars, rankVars, ltpVars, raceVars>>

notRace == <<rtVars, fetchVars, scanVars, surgeVars, engVars, rankVars, ltpVars, boVars>>

vars == <<realtime_tasks, loops, sidState, fpc, attempt, fetchLog, fetchResult,
          jsonErrorCaught, scanPc, scanArgs, scanFeed, scanOut, surgePc, surgeArgs,
          surgeFeed, surgeOut, PREV_SURGE_CACHE, surgeObs, engDoc, engExpiry, engSnap,
          engNearest, engStraddle, rankIn, rankOut, ltpPc, ltpArgs, ltpFeed, ltpOut,
          boPc, boReq, boAnswer, racePc, raceLocal, raceCache, raceHeap, raceStart>>

(***************************************************************************)
(* Bounds of the model                                                     *)
(***************************************************************************)
MaxLoops == 2        \* "start_realtime" commands over the whole run
MaxObs == 6          \* prices appended under one key over the whole run

Max(a, b) == IF a >= b THEN a ELSE b

(***************************************************************************)
(* Realtime sessions                                                       *)
(***************************************************************************)
Sids == {"sid1", "sid2"}

\* The "interval" field of a start payload: absent (0 here, falsy as None is),
\* or a number.
RawIntervals == {0, -1}

DefaultInterval == 15

\* int(data.get("interval") or 15)
IntervalOf(raw) == IF raw = 0 THEN DefaultInterval ELSE raw

\* _realtime_tasks.get(sid, {}).get("running")
Running(sid) == sid \in DOMAIN realtime_tasks /\ realtime_tasks[sid].running

\* The loops of sid that have not ended.
LiveLoops(sid) == {l \in DOMAIN loops : loops[l].sid = sid /\ loops[l].pc # "done"}

\* The same loops, with the command that cleared their flag noted on those in
\* ls (the first such command of a loop is the one kept).
Signal(ls, what) ==
    [l \in DOMAIN loops |->
        IF l \in ls /\ loops[l].signal = "none"
        THEN [loops[l] EXCEPT !.signal = what]
        ELSE loops[l]]

\* No client has connected and _realtime_tasks is empty.
InitRT ==
    /\ realtime_tasks = << >>
    /\ loops = << >>
    /\ sidState = [c \in Sids |-> "new"]

\* No get_json call in progress.
FetchIdle ==
    /\ fpc = "idle"
    /\ attempt = 0
    /\ fetchLog = << >>
    /\ fetchResult = [kind |-> "none", value |-> << >>, error |-> ""]
    /\ jsonErrorCaught = TRUE

\* handle_connect: a fresh sid gets a record that is not running.
handle_connect(c) ==
    /\ sidState[c] = "new"
    /\ sidState' = [sidState EXCEPT ![c] = "connected"]
    /\ realtime_tasks' =
          [s \in DOMAIN realtime_tasks \cup {c} |->
              IF s = c THEN [running |-> FALSE] ELSE realtime_tasks[s]]
    /\ UNCHANGED <<loops, notRT>>

\* handle_disconnect with the del of line 854 forgotten: the flag is cleared,
\* the record stays.
handle_disconnect_keep(c) ==
    /\ sidState[c] = "connected"
    /\ sidState' = [sidState EXCEPT ![c] = "gone"]
    /\ realtime_tasks' =
          IF c \in DOMAIN realtime_tasks
          THEN [realtime_tasks EXCEPT ![c].running = FALSE]
          ELSE realtime_tasks
    /\ UNCHANGED <<loops, notRT>>

\* handle_disconnect: the flag is cleared and the record deleted.
handle_disconnect(c) ==
    /\ sidState[c] = "connected"
    /\ sidState' = [sidState EXCEPT ![c] = "gone"]
    /\ realtime_tasks' =
          IF c \in DOMAIN realtime_tasks
          THEN [s \in DOMAIN realtime_tasks \ {c} |-> realtime_tasks[s]]
          ELSE realtime_tasks
    /\ UNCHANGED <<loops, notRT>>

\* handle_start_realtime: "stop previous if running" clears the flag of the
\* record, the record is then replaced by a running one (line 875), and a new
\* background task is started. The loops the clearing was meant for are noted.
handle_start_realtime(c, raw) ==
    /\ sidState[c] = "connected"
    /\ Len(loops) < MaxLoops
    /\ LET cleared == IF Running(c)
                      THEN [realtime_tasks EXCEPT ![c].running = FALSE]
                      ELSE realtime_tasks
           replaced == IF Running(c) THEN LiveLoops(c) ELSE {}
       IN /\ realtime_tasks' =
                [s \in DOMAIN cleared \cup {c} |->
                    IF s = c THEN [running |-> TRUE] ELSE cleared[s]]
          /\ loops' = Append(Signal(replaced, "start"),
                             [sid |-> c, interval |-> IntervalOf(raw), pc |-> "check",
                              published |-> FALSE, slept |-> 0, signal |-> "none"])
    /\ UNCHANGED <<sidState, notRT>>

\* handle_stop_realtime: the flag of the sid's record is cleared.
handle_stop_realtime(c) ==
    /\ sidState[c] = "connected"
    /\ realtime_tasks' =
          IF c \in DOMAIN realtime_tasks
          THEN [realtime_tasks EXCEPT ![c].running = FALSE]
          ELSE realtime_tasks
    /\ loops' = IF Running(c) THEN Signal(LiveLoops(c), "stop") ELSE loops
    /\ UNCHANGED <<sidState, notRT>>

\* _bg_loop, line 879: the while condition, looked up by sid at every check.
bg_loop_check(l) ==
    /\ loops[l].pc = "check"
    /\ loops' = [loops EXCEPT ![l].pc = IF Running(loops[l].sid) THEN "scan" ELSE "done"]
    /\ UNCHANGED <<realtime_tasks, sidState, notRT>>

\* _bg_loop, lines 881-883: the scan returns and its result is emitted; the
\* loop goes straight back to the while condition.
bg_loop_publish(l) ==
    /\ loops[l].pc = "scan"
    /\ loops' = [loops EXCEPT ![l].pc = "check",
                              ![l].published = TRUE,
                              ![l].slept = 0]
    /\ UNCHANGED <<realtime_tasks, sidState, notRT>>

\* A loop without the handler of line 884: the exception ends the task.
bg_loop_except_ends(l) ==
    /\ loops[l].pc = "scan"
    /\ loops' = [loops EXCEPT ![l].pc = "done"]
    /\ UNCHANGED <<realtime_tasks, sidState, notRT>>

\* _bg_loop, lines 884-886: the scan or the emit raises, the handler catches
\* and sleeps max(1, interval) seconds before the next check.
bg_loop_except(l) ==
    /\ loops[l].pc = "scan"
    /\ loops' = [loops EXCEPT ![l].pc = "check",
                              ![l].slept = Max(1, loops[l].interval)]
    /\ UNCHANGED <<realtime_tasks, sidState, notRT>>

NextRT ==
    \/ \E c \in Sids : handle_connect(c)
    \/ \E c \in Sids : handle_disconnect(c)
    \/ \E c \in Sids, raw \in RawIntervals : handle_start_realtime(c, raw)
    \/ \E c \in Sids : handle_stop_realtime(c)
    \/ \E l \in DOMAIN loops : bg_loop_check(l)
    \/ \E l \in DOMAIN loops : bg_loop_publish(l)
    \/ \E l \in DOMAIN loops : bg_loop_except(l)

(***************************************************************************)
(* get_json: the resilient fetch                                           *)
(***************************************************************************)
Retries == 3

\* What the upstream can answer to one s.get(url): a status with a body, or no
\* answer at all (status 0: s.get raises a requests.RequestException).
Answers ==
    {[status |-> 200, body |-> "[1]"],
     [status |-> 200, body |-> "[22]"],
     [status |-> 200, body |-> "<html>"],
     [status |-> 401, body |-> ""],
     [status |-> 403, body |-> ""],
     [status |-> 500, body |-> ""],
     [status |-> 0, body |-> ""]}

\* prime(): both warm-up requests succeed, or one raises and is logged.
PrimeOutcomes == {"primed", "prime_failed"}

\* r.json(): the bodies that parse, and what they parse to.
IsJson(body) == body \in {"[1]", "[22]"}

ParseJson(body) == IF body = "[1]" THEN <<1>> ELSE IF body = "[22]" THEN <<22>> ELSE << >>

LogGet(a) == [ev |-> "get", status |-> a.status, body |-> a.body]

LogEv(e) == [ev |-> e, status |-> 0, body |-> ""]

\* The requests get_json sent to url so far, in order.
Requests == SelectSeq(fetchLog, LAMBDA e : e.ev = "get")

\* A get_json call is about to be made; the build decides how r.json() fails.
InitFetch ==
    /\ fpc = "idle"
    /\ attempt = 0
    /\ fetchLog = << >>
    /\ fetchResult = [kind |-> "none", value |-> << >>, error |-> ""]
    /\ jsonErrorCaught \in BOOLEAN

\* get_json(url) is called.
get_json_begin ==
    /\ fpc = "idle"
    /\ fpc' = "loop"
    /\ UNCHANGED <<attempt, fetchLog, fetchResult, jsonErrorCaught, notFetch>>

\* One iteration of the for loop in which a 200 answer does not end the call.
get_json_attempt_noreturn(a, p) ==
    /\ fpc = "loop"
    /\ attempt < Retries
    /\ attempt' = attempt + 1
    /\ fetchLog' = fetchLog \o <<LogGet(a), LogEv("sleep")>>
    /\ UNCHANGED <<fpc, fetchResult, jsonErrorCaught, notFetch>>

\* One iteration of the for loop in which only a 401 or 403 answer re-primes:
\* a request that raises is followed by the sleep alone.
get_json_attempt_noreprime(a, p) ==
    /\ fpc = "loop"
    /\ attempt < Retries
    /\ attempt' = attempt + 1
    /\ IF a.status = 200 /\ IsJson(a.body)
       THEN /\ fpc' = "returned"
            /\ fetchResult' = [kind |-> "value", value |-> ParseJson(a.body), error |-> ""]
            /\ fetchLog' = Append(fetchLog, LogGet(a))
       ELSE /\ fpc' = "loop"
            /\ fetchResult' = fetchResult
            /\ fetchLog' =
                  IF a.status \in {401, 403}
                  THEN fetchLog \o <<LogGet(a), LogEv(p), LogEv("sleep")>>
                  ELSE fetchLog \o <<LogGet(a), LogEv("sleep")>>
    /\ UNCHANGED <<jsonErrorCaught, notFetch>>

\* One iteration of the for loop (lines 56-67): the request, then by its
\* outcome the return, the escaping parse error, or prime() and the sleep.
get_json_attempt(a, p) ==
    /\ fpc = "loop"
    /\ attempt < Retries
    /\ attempt' = attempt + 1
    /\ IF a.status = 200 /\ IsJson(a.body)
       THEN /\ fpc' = "returned"
            /\ fetchResult' = [kind |-> "value", value |-> ParseJson(a.body), error |-> ""]
            /\ fetchLog' = Append(fetchLog, LogGet(a))
       ELSE IF a.status = 200 /\ ~jsonErrorCaught
       THEN /\ fpc' = "raised"
            /\ fetchResult' = [kind |-> "error", value |-> << >>, error |-> "JSONDecodeError"]
            /\ fetchLog' = Append(fetchLog, LogGet(a))
       ELSE /\ fpc' = "loop"
            /\ fetchResult' = fetchResult
            /\ fetchLog' =
                  IF a.status \in {401, 403, 0} \/ a.status = 200
                  THEN fetchLog \o <<LogGet(a), LogEv(p), LogEv("sleep")>>
                  ELSE fetchLog \o <<LogGet(a), LogEv("sleep")>>
    /\ UNCHANGED <<jsonErrorCaught, notFetch>>

\* Lines 68-69: the loop ran out.
get_json_exhausted ==
    /\ fpc = "loop"
    /\ attempt = Retries
    /\ fpc' = "failed"
    /\ fetchResult' = [kind |-> "error", value |-> << >>,
                       error |-> "RuntimeError: NSE fetch failed"]
    /\ UNCHANGED <<attempt, fetchLog, jsonErrorCaught, notFetch>>

NextFetch ==
    \/ get_json_begin
    \/ \E a \in Answers, p \in PrimeOutcomes : get_json_attempt(a, p)
    \/ get_json_exhausted

(***************************************************************************)
(* Numbers                                                                 *)
(*                                                                         *)
(* Every float of the program (strike, underlying, IV, LTP, volume,        *)
(* threshold, percentage) is a fixed-point integer counting thousandths,   *)
(* so that round(x, 2) has something to drop. Arithmetic is exact.         *)
(***************************************************************************)
Milli == 1000

\* Python's None, where a number is expected.
None == -999999

\* A JSON value that float() rejects (a string such as "-").
NotANumber == -999998

Abs(x) == IF x < 0 THEN -x ELSE x

\* n / d rounded to the nearest integer, ties to even (d > 0).
RoundDiv(n, d) ==
    LET q == n \div d
        r == n % d
    IN IF 2 * r < d THEN q
       ELSE IF 2 * r > d THEN q + 1
       ELSE IF q % 2 = 0 THEN q ELSE q + 1

\* round(x, 2): to the nearest hundredth.
Round2(x) == RoundDiv(x, 10) * 10

\* safe_float (lines 36-43).
safe_float(val) == IF val = None \/ val = NotANumber THEN None ELSE val

(***************************************************************************)
(* parse_rows: the normalizer                                              *)
(***************************************************************************)
\* An upstream document. kind "falsy" is None or {}, "norecords" a document
\* with no "records" key, "badrecords" one whose "records" is not a map.
Leg(iv, ltp, vol) ==
    [present |-> TRUE, impliedVolatility |-> iv, lastPrice |-> ltp,
     totalTradedVolume |-> vol, lastTradedVolume |-> None, totalTradedQty |-> None]

NoLeg ==
    [present |-> FALSE, impliedVolatility |-> None, lastPrice |-> None,
     totalTradedVolume |-> None, lastTradedVolume |-> None, totalTradedQty |-> None]

Item(strike, expiry, ce, pe) ==
    [strikePrice |-> strike, expiryDate |-> expiry, CE |-> ce, PE |-> pe]

Chain(name, under, expiries, data) ==
    [kind |-> "chain", index |-> name, underlyingValue |-> under,
     expiryDates |-> expiries, data |-> data]

NoChain(kind) ==
    [kind |-> kind, index |-> "", underlyingValue |-> None,
     expiryDates |-> << >>, data |-> << >>]

\* x or y or z on optional numbers: the first that is neither None nor 0.
FirstTruthy(x, y, z) ==
    IF x # None /\ x # 0 THEN x
    ELSE IF y # None /\ y # 0 THEN y
    ELSE z

\* item.get("CE") or {}, then the .get of each field (None when absent).
LegOf(leg) == IF leg.present THEN leg ELSE NoLeg

\* Lines 96-107: the row of one data item.
RowOf(item, symbol_name, underlying) ==
    LET ce == LegOf(item.CE)
        pe == LegOf(item.PE)
    IN [symbol |-> symbol_name,
        underlying |-> underlying,
        expiry |-> item.expiryDate,
        strike |-> safe_float(item.strikePrice),
        CE_iv |-> safe_float(ce.impliedVolatility),
        PE_iv |-> safe_float(pe.impliedVolatility),
        CE_ltp |-> safe_float(ce.lastPrice),
        PE_ltp |-> safe_float(pe.lastPrice),
        CE_vol |-> safe_float(FirstTruthy(ce.totalTradedVolume, ce.lastTradedVolume,
                                          ce.totalTradedQty)),
        PE_vol |-> safe_float(FirstTruthy(pe.totalTradedVolume, pe.lastTradedVolume,
                                          pe.totalTradedQty))]

\* rows.sort(key=strike): a stable sort, here by insertion in original order.
RECURSIVE InsertRow(_, _)
InsertRow(sorted, r) ==
    IF sorted = << >> THEN <<r>>
    ELSE IF r.strike < Head(sorted).strike THEN <<r>> \o sorted
    ELSE <<Head(sorted)>> \o InsertRow(Tail(sorted), r)

RECURSIVE SortRows(_)
SortRows(rows) ==
    IF rows = << >> THEN << >>
    ELSE InsertRow(SortRows(SubSeq(rows, 1, Len(rows) - 1)), rows[Len(rows)])

\* Lines 89-108: the rows of the items kept, in document order. chosen_expiry
\* "" is None (no filter).
RECURSIVE MapRows(_, _, _, _)
MapRows(data, chosen_expiry, symbol_name, underlying) ==
    IF data = << >> THEN << >>
    ELSE LET item == Head(data)
             rest == MapRows(Tail(data), chosen_expiry, symbol_name, underlying)
             row == RowOf(item, symbol_name, underlying)
         IN IF chosen_expiry # "" /\ item.expiryDate # chosen_expiry THEN rest
            ELSE IF row.strike = None THEN rest
            ELSE <<row>> \o rest

\* parse_rows raises (AttributeError) where rec.get is called on a non-map.
parse_rows_raises(oc_json) == oc_json.kind = "badrecords"

\* parse_rows (lines 79-110), for a document on which it does not raise.
parse_rows(oc_json, chosen_expiry) ==
    IF oc_json.kind \in {"falsy", "norecords"}
    THEN [rows |-> << >>, expiries |-> << >>, underlying |-> None, symbol_name |-> ""]
    ELSE LET underlying == safe_float(oc_json.underlyingValue)
         IN [rows |-> SortRows(MapRows(oc_json.data, chosen_expiry, oc_json.index,
                                       underlying)),
             expiries |-> oc_json.expiryDates,
             underlying |-> underlying,
             symbol_name |-> oc_json.index]

(***************************************************************************)
(* The signal engine                                                       *)
(***************************************************************************)
IvOf(r, side) == IF side = "CE" THEN r.CE_iv ELSE r.PE_iv

LtpOf(r, side) == IF side = "CE" THEN r.CE_ltp ELSE r.PE_ltp

\* The loop of nearest_strike_iv (lines 115-124); best is << >> (None) or <<row>>.
RECURSIVE NearestFrom(_, _, _, _)
NearestFrom(rows, under, side, best) ==
    IF rows = << >> THEN best
    ELSE LET r == Head(rows)
             d == Abs(r.strike - under)
         IN IF IvOf(r, side) = None \/ r.strike = None
            THEN NearestFrom(Tail(rows), under, side, best)
            ELSE IF best = << >> \/ d < Abs(best[1].strike - under)
            THEN NearestFrom(Tail(rows), under, side, <<r>>)
            ELSE NearestFrom(Tail(rows), under, side, best)

\* A search in which the highest of the nearest strikes wins.
nearest_strike_iv_highest(rows, under, side) ==
    LET c == {j \in 1..Len(rows) : IvOf(rows[j], side) # None}
        best == CHOOSE j \in c : \A k \in c :
                    \/ Abs(rows[j].strike - under) < Abs(rows[k].strike - under)
                    \/ /\ Abs(rows[j].strike - under) = Abs(rows[k].strike - under)
                       /\ rows[j].strike >= rows[k].strike
    IN IF c = {} THEN [strike |-> None, iv |-> None]
       ELSE [strike |-> rows[best].strike, iv |-> IvOf(rows[best], side)]

\* nearest_strike_iv (lines 113-127).
nearest_strike_iv(rows, under, side) ==
    LET best == NearestFrom(rows, under, side, << >>)
    IN IF best = << >> THEN [strike |-> None, iv |-> None]
       ELSE [strike |-> best[1].strike, iv |-> IvOf(best[1], side)]

\* Lines 206-210: the LTP of the last row at the ATM strike of a side.
RECURSIVE AtmLtp(_, _, _, _)
AtmLtp(rows, strike, side, acc) ==
    IF rows = << >> THEN acc
    ELSE AtmLtp(Tail(rows), strike, side,
                IF Head(rows).strike = strike THEN LtpOf(Head(rows), side) ELSE acc)

\* A filter that forgets the side of the underlying (lines 223-226).
QualifiesAnySide(r, under, thr, side_name, comp) ==
    /\ IvOf(r, side_name) # None
    /\ r.strike # None
    /\ IvOf(r, side_name) - comp >= thr

\* Lines 135-139: the first strike within 0.1 of the underlying (0 if none;
\* a strike of 0 is falsy and never taken).
RECURSIVE ExactAtm(_, _)
ExactAtm(rows, underlying) ==
    IF rows = << >> THEN 0
    ELSE IF Head(rows).strike # 0 /\ Abs(Head(rows).strike - underlying) < 100
    THEN Head(rows).strike
    ELSE ExactAtm(Tail(rows), underlying)

\* Line 141: min(rows, key=|strike - underlying|), the first of the nearest.
RECURSIVE MinByDistance(_, _, _)
MinByDistance(rows, underlying, best) ==
    IF rows = << >> THEN best
    ELSE IF Abs(Head(rows).strike - underlying) < Abs(best.strike - underlying)
    THEN MinByDistance(Tail(rows), underlying, Head(rows))
    ELSE MinByDistance(Tail(rows), underlying, best)

\* Lines 134-141.
AtmStrike(rows, underlying) ==
    IF ExactAtm(rows, underlying) # 0 THEN ExactAtm(rows, underlying)
    ELSE MinByDistance(Tail(rows), underlying, Head(rows)).strike

\* Lines 143-148: the last row at the ATM strike with a truthy LTP on the
\* side; << >> is None.
RECURSIVE LegRow(_, _, _, _)
LegRow(rows, atm_strike, side, acc) ==
    IF rows = << >> THEN acc
    ELSE LegRow(Tail(rows), atm_strike, side,
                IF /\ Head(rows).strike = atm_strike
                   /\ LtpOf(Head(rows), side) # None
                   /\ LtpOf(Head(rows), side) # 0
                THEN <<Head(rows)>> ELSE acc)

NoStraddle == [kind |-> "value", price |-> None, iv |-> None, strike |-> None, label |-> << >>]

StraddleRaised == [kind |-> "raised", price |-> None, iv |-> None, strike |-> None, label |-> << >>]

\* get_straddle_info (lines 130-157); None + float at line 155 is a TypeError.
get_straddle_info(rows, underlying) ==
    IF rows = << >> \/ underlying = None THEN NoStraddle
    ELSE LET atm_strike == AtmStrike(rows, underlying)
             ce_row == LegRow(rows, atm_strike, "CE", << >>)
             pe_row == LegRow(rows, atm_strike, "PE", << >>)
         IN IF ce_row = << >> \/ pe_row = << >> THEN NoStraddle
            ELSE IF ce_row[1].CE_iv = None \/ pe_row[1].PE_iv = None THEN StraddleRaised
            ELSE [kind |-> "value",
                  price |-> Round2(ce_row[1].CE_ltp + pe_row[1].PE_ltp),
                  iv |-> 10 * RoundDiv(ce_row[1].CE_iv + pe_row[1].PE_iv, 20),
                  strike |-> atm_strike,
                  label |-> <<atm_strike, atm_strike>>]

\* Lines 216-229: the row qualifies as a hit of side_name.
Qualifies(r, under, thr, side_name, comp) ==
    /\ IvOf(r, side_name) # None
    /\ r.strike # None
    /\ ~(side_name = "CE" /\ r.strike < under)
    /\ ~(side_name = "PE" /\ r.strike > under)
    /\ IvOf(r, side_name) - comp >= thr

\* Lines 230-237: the hit of a qualifying row (under # 0).
HitOf(r, under, side_name, comp) ==
    [strike |-> r.strike,
     iv |-> IvOf(r, side_name),
     ltp |-> LtpOf(r, side_name),
     inc |-> Round2(IvOf(r, side_name) - comp),
     dist_pct |-> 10 * RoundDiv(Abs(r.strike - under) * 100 * 100, under)]

RECURSIVE CollectHits(_, _, _, _, _)
CollectHits(rows, under, thr, side_name, comp) ==
    IF rows = << >> THEN << >>
    ELSE LET rest == CollectHits(Tail(rows), under, thr, side_name, comp)
         IN IF Qualifies(Head(rows), under, thr, side_name, comp)
            THEN <<HitOf(Head(rows), under, side_name, comp)>> \o rest
            ELSE rest

\* The sort key with the distance the other way round: the farther strike
\* before the nearer one among equal increments.
HitBeforeFarther(x, y) ==
    \/ x.inc > y.inc
    \/ x.inc = y.inc /\ Abs(x.dist_pct) > Abs(y.dist_pct)

\* Line 238: x sorts strictly before y under key (inc, -abs(dist_pct)), reversed.
HitBefore(x, y) ==
    \/ x.inc > y.inc
    \/ x.inc = y.inc /\ -Abs(x.dist_pct) > -Abs(y.dist_pct)

\* hits.sort(key=..., reverse=True): stable, equal keys keep their order.
RECURSIVE InsertHit(_, _)
InsertHit(sorted, h) ==
    IF sorted = << >> THEN <<h>>
    ELSE IF HitBefore(h, Head(sorted)) THEN <<h>> \o sorted
    ELSE <<Head(sorted)>> \o InsertHit(Tail(sorted), h)

RECURSIVE SortHits(_)
SortHits(hits) ==
    IF hits = << >> THEN << >>
    ELSE InsertHit(SortHits(SubSeq(hits, 1, Len(hits) - 1)), hits[Len(hits)])

\* build_hits raises ZeroDivisionError: a row qualifies and under is 0.
build_hits_raises(rows, under, thr, side_name, comp) ==
    /\ comp # None
    /\ under = 0
    /\ \E i \in 1..Len(rows) : Qualifies(rows[i], under, thr, side_name, comp)

\* build_hits (lines 212-239), where it does not raise.
build_hits(rows, under, thr, side_name, comp) ==
    IF comp = None THEN << >>
    ELSE SortHits(CollectHits(rows, under, thr, side_name, comp))

\* A classification that rates a two-sided breakout by its put side alone.
build_strategy_put_rated(ce_hits, pe_hits) ==
    IF ce_hits # << >> /\ pe_hits = << >>
    THEN [bias |-> "Bullish", suggestion |-> "Call Buy / Bull Call Spread",
          strength |-> ce_hits[1].inc]
    ELSE IF pe_hits # << >>
    THEN [bias |-> IF ce_hits = << >> THEN "Bearish" ELSE "Vol Expansion",
          suggestion |-> IF ce_hits = << >> THEN "Put Buy / Bear Put Spread"
                         ELSE "Long Straddle / Strangle",
          strength |-> pe_hits[1].inc]
    ELSE [bias |-> "Neutral", suggestion |-> "Wait / No Trade", strength |-> 0]

\* build_strategy (lines 160-168).
build_strategy(ce_hits, pe_hits) ==
    IF ce_hits # << >> /\ pe_hits = << >>
    THEN [bias |-> "Bullish", suggestion |-> "Call Buy / Bull Call Spread",
          strength |-> ce_hits[1].inc]
    ELSE IF pe_hits # << >> /\ ce_hits = << >>
    THEN [bias |-> "Bearish", suggestion |-> "Put Buy / Bear Put Spread",
          strength |-> pe_hits[1].inc]
    ELSE IF ce_hits # << >> /\ pe_hits # << >>
    THEN [bias |-> "Vol Expansion", suggestion |-> "Long Straddle / Strangle",
          strength |-> Max(ce_hits[1].inc, pe_hits[1].inc)]
    ELSE [bias |-> "Neutral", suggestion |-> "Wait / No Trade", strength |-> 0]

(***************************************************************************)
(* scan_symbols: the scanner                                               *)
(***************************************************************************)
E1 == "26-Nov-2026"

E2 == "31-Dec-2026"

\* The documents the upstream serves in this model (prices in thousandths).
DocMain ==
    Chain("NIFTY", 1000000, <<E1, E2>>,
          <<Item(1100000, E1, Leg(21504, 2000, 100000), Leg(30000, 90000, 10000)),
            Item(1000000, E1, Leg(15000, 50000, 500000), Leg(16000, 48000, 400000)),
            Item(1050000, E1, Leg(21496, 5000, 200000), Leg(25000, 70000, 20000)),
            Item(NotANumber, E1, Leg(99000, 1000, 1000), NoLeg),
            Item(950000, E1, Leg(14000, 80000, 30000), Leg(22000, 4000, 300000)),
            Item(1050000, E2, Leg(40000, 9000, 10000), NoLeg),
            Item(900000, E1, Leg(13000, 110000, 5000), Leg(22000, 1500, 100000))>>)

DocQuiet ==
    Chain("SBIN", 500000, <<E1>>,
          <<Item(510000, E1, Leg(21000, 3000, 1000), NoLeg),
            Item(500000, E1, Leg(20000, 9000, 1000), Leg(21000, 8000, 1000))>>)

DocZeroUnder ==
    Chain("SBIN", 0, <<E1>>,
          <<Item(500000, E1, Leg(20000, 9000, 1000), Leg(21000, 8000, 1000)),
            Item(600000, E1, Leg(30000, 3000, 1000), Leg(40000, 90000, 1000)),
            Item(0, E1, NoLeg, Leg(50000, 1000, 1000))>>)

DocNoUnder ==
    Chain("SBIN", None, <<E1>>,
          <<Item(500000, E1, Leg(20000, 9000, 1000), Leg(21000, 8000, 1000))>>)

DocNoRows == Chain("SBIN", 500000, <<E1>>, << >>)

\* What one get_json(oc_url(sym)) of a scan can end in: the RuntimeError of an
\* exhausted fetch, or a document.
Upstream ==
    {NoChain("fetch_failed"), NoChain("falsy"), NoChain("norecords"),
     NoChain("badrecords"), DocMain, DocQuiet, DocZeroUnder, DocNoUnder, DocNoRows}

\* The symbols a caller may send, and s.upper().strip() of each.
RawSymbols == {"NIFTY", "sbin ", ""}

UpperStrip(sym) == IF sym = "sbin " THEN "SBIN" ELSE sym

\* Line 186: empty entries dropped, the others upper-cased and stripped.
RECURSIVE NormaliseSymbols(_)
NormaliseSymbols(symbols) ==
    IF symbols = << >> THEN << >>
    ELSE IF Head(symbols) = "" THEN NormaliseSymbols(Tail(symbols))
    ELSE <<UpperStrip(Head(symbols))>> \o NormaliseSymbols(Tail(symbols))

SymbolLists ==
    {<< >>, <<"NIFTY">>, <<"sbin ", "NIFTY">>, <<"NIFTY", "", "sbin ">>,
     <<"NIFTY", "NIFTY">>}

Thresholds == {5000, 6500}

Sides == {"ALL", "CE", "PE"}

\* expiry_overrides: symbol -> expiry ("" where the symbol has no entry).
NoOverrides == [sym \in {"NIFTY", "SBIN"} |-> ""]

OverridesChoices == {NoOverrides, [NoOverrides EXCEPT !["NIFTY"] = E2]}

\* Line 194: the override, else the first expiry of the document, else None.
ExpiryUsed(sym, oc, overrides) ==
    IF overrides[sym] # "" THEN overrides[sym]
    ELSE IF parse_rows(oc, "").expiries # << >> THEN parse_rows(oc, "").expiries[1]
    ELSE ""

\* Lines 192-251 raise for this symbol: the fetch, parse_rows or build_hits.
SymbolRaises(sym, oc, thr, side, overrides) ==
    \/ oc.kind = "fetch_failed"
    \/ parse_rows_raises(oc)
    \/ LET parsed == parse_rows(oc, ExpiryUsed(sym, oc, overrides))
           rows == parsed.rows
           under == parsed.underlying
       IN /\ rows # << >>
          /\ under # None
          /\ \/ /\ side \in {"ALL", "CE"}
                /\ build_hits_raises(rows, under, thr, "CE",
                                     nearest_strike_iv(rows, under, "CE").iv)
             \/ /\ side \in {"ALL", "PE"}
                /\ build_hits_raises(rows, under, thr, "PE",
                                     nearest_strike_iv(rows, under, "PE").iv)

\* Line 197: nothing to scan for this symbol.
SymbolSkipped(sym, oc, overrides) ==
    LET parsed == parse_rows(oc, ExpiryUsed(sym, oc, overrides))
    IN parsed.rows = << >> \/ parsed.underlying = None

RoundOpt(x) == IF x = None THEN None ELSE Round2(x)

\* Lines 201-272: the ScanResult of a symbol that neither raises nor is skipped.
ScanResult(sym, oc, thr, side, overrides) ==
    LET used == ExpiryUsed(sym, oc, overrides)
        parsed == parse_rows(oc, used)
        rows == parsed.rows
        under == parsed.underlying
        atm_ce == nearest_strike_iv(rows, under, "CE")
        atm_pe == nearest_strike_iv(rows, under, "PE")
        ce_hits == IF side \in {"ALL", "CE"}
                   THEN build_hits(rows, under, thr, "CE", atm_ce.iv) ELSE << >>
        pe_hits == IF side \in {"ALL", "PE"}
                   THEN build_hits(rows, under, thr, "PE", atm_pe.iv) ELSE << >>
    IN [symbol |-> sym,
        expiry_used |-> IF used = "" THEN "-" ELSE used,
        underlying |-> IF under # 0 THEN Round2(under) ELSE 0,
        atm_ce_iv |-> RoundOpt(atm_ce.iv),
        atm_pe_iv |-> RoundOpt(atm_pe.iv),
        atm_ce_ltp |-> RoundOpt(AtmLtp(rows, atm_ce.strike, "CE", None)),
        atm_pe_ltp |-> RoundOpt(AtmLtp(rows, atm_pe.strike, "PE", None)),
        ce_hits |-> ce_hits,
        pe_hits |-> pe_hits,
        strategy |-> build_strategy(ce_hits, pe_hits)]

\* No scan_symbols call in progress.
ScanIdle ==
    /\ scanPc = "idle"
    /\ scanArgs = [symbols |-> << >>, thr |-> 0, side |-> "ALL", overrides |-> NoOverrides]
    /\ scanFeed = << >>
    /\ scanOut = << >>

\* scan_symbols is called (lines 184-187).
scan_symbols_begin(symbols, thr, side, overrides) ==
    /\ scanPc = "idle"
    /\ scanPc' = "loop"
    /\ scanArgs' = [symbols |-> NormaliseSymbols(symbols), thr |-> thr, side |-> side,
                    overrides |-> overrides]
    /\ scanFeed' = << >>
    /\ scanOut' = << >>
    /\ UNCHANGED notScan

\* One iteration of the symbol loop in which an exception ends the whole loop.
scan_symbol_abort(oc) ==
    /\ scanPc = "loop"
    /\ Len(scanFeed) < Len(scanArgs.symbols)
    /\ LET sym == scanArgs.symbols[Len(scanFeed) + 1]
       IN IF SymbolRaises(sym, oc, scanArgs.thr, scanArgs.side, scanArgs.overrides)
          THEN scanOut' = scanOut /\ scanPc' = "done"
          ELSE IF SymbolSkipped(sym, oc, scanArgs.overrides)
          THEN scanOut' = scanOut /\ scanPc' = scanPc
          ELSE /\ scanOut' = Append(scanOut, ScanResult(sym, oc, scanArgs.thr,
                                                        scanArgs.side, scanArgs.overrides))
               /\ scanPc' = scanPc
    /\ scanFeed' = Append(scanFeed, oc)
    /\ UNCHANGED <<scanArgs, notScan>>

\* One iteration of the symbol loop (lines 188-275): an exception is caught
\* and the loop continues, a symbol without data is skipped, any other symbol
\* appends its result.
scan_symbol(oc) ==
    /\ scanPc = "loop"
    /\ Len(scanFeed) < Len(scanArgs.symbols)
    /\ LET sym == scanArgs.symbols[Len(scanFeed) + 1]
       IN IF SymbolRaises(sym, oc, scanArgs.thr, scanArgs.side, scanArgs.overrides)
          THEN scanOut' = scanOut
          ELSE IF SymbolSkipped(sym, oc, scanArgs.overrides)
          THEN scanOut' = scanOut
          ELSE scanOut' = Append(scanOut, ScanResult(sym, oc, scanArgs.thr,
                                                     scanArgs.side, scanArgs.overrides))
    /\ scanFeed' = Append(scanFeed, oc)
    /\ UNCHANGED <<scanPc, scanArgs, notScan>>

\* Line 277: the loop is over, out is returned.
scan_symbols_return ==
    /\ scanPc = "loop"
    /\ Len(scanFeed) = Len(scanArgs.symbols)
    /\ scanPc' = "done"
    /\ UNCHANGED <<scanArgs, scanFeed, scanOut, notScan>>

NextScan ==
    \/ \E symbols \in SymbolLists, thr \in Thresholds, side \in Sides,
          overrides \in OverridesChoices :
          scan_symbols_begin(symbols, thr, side, overrides)
    \/ \E oc \in Upstream : scan_symbol(oc)
    \/ scan_symbols_return

(***************************************************************************)
(* api_premium_surge: the surge detector                                   *)
(***************************************************************************)
HistoryLen == 5

NoiseFloor == 100

TopEvents == 50

DefaultLotSize == 50

OtmBuffer == 10 * Milli

\* get_lot_size (lines 717-722), for the symbols of this model.
get_lot_size(sym) == IF sym = "NIFTY" THEN 25 ELSE DefaultLotSize

\* A deque(maxlen=5) that silently keeps everything.
DequeAppendUnbounded(h, x) == Append(h, x)

\* deque(maxlen=5).append(x): the oldest entry leaves a full deque.
DequeAppend(h, x) == IF Len(h) >= HistoryLen THEN Append(Tail(h), x) ELSE Append(h, x)

\* Lines 763 and 796: strictly out of the money by the buffer.
IsOtm(strike, under, side) ==
    IF side = "CE" THEN strike > under + OtmBuffer ELSE strike < under - OtmBuffer

\* pct >= t, for pct = (curr - prev) / prev * 100 and t in percent (prev > 0).
PctAtLeast(curr, prev, t) == (curr - prev) * 100 >= t * prev

\* A classifier that knows the top tier only.
StrengthOfTopOnly(curr, prev) ==
    IF PctAtLeast(curr, prev, 1000) THEN "NUCLEAR" ELSE "GOOD"

\* Lines 773 and 806.
StrengthOf(curr, prev) ==
    IF PctAtLeast(curr, prev, 1000) THEN "NUCLEAR"
    ELSE IF PctAtLeast(curr, prev, 500) THEN "EXTREME"
    ELSE IF PctAtLeast(curr, prev, 300) THEN "STRONG"
    ELSE "GOOD"

\* round((curr - base) / base * 100.0, 1), in thousandths of a percent.
PctRounded(curr, base) == 100 * RoundDiv((curr - base) * 1000, base)

\* r.get("CE_vol") or 0
VolOrZero(vol) == IF vol = None THEN 0 ELSE vol

\* Lines 776-790 and 809-823: the event of an observation that fires.
SurgeEvent(sym, used, strike, side, hist, curr, vol) ==
    LET prev == hist[Len(hist)]
        lot_size == get_lot_size(sym)
    IN [symbol |-> sym,
        expiry |-> used,
        strike |-> strike \div Milli,
        side |-> side,
        prev |-> Round2(prev),
        curr |-> Round2(curr),
        pct |-> PctRounded(curr, prev),
        speed |-> IF Len(hist) >= 3 THEN PctRounded(curr, hist[1]) ELSE 0,
        volume |-> VolOrZero(vol) \div Milli,
        lots |-> 10 * RoundDiv(VolOrZero(vol), lot_size * 10),
        strength |-> StrengthOf(curr, prev),
        type |-> IF VolOrZero(vol) < 5 * Milli * lot_size
                 THEN "OTM_BOMB" ELSE "INSTITUTIONAL_BOMB"]

\* Lines 763 and 796: the side of the row is looked at at all.
Observed(ltp, strike, under, side) ==
    ltp # None /\ ltp # 0 /\ IsOtm(strike, under, side)

\* A detector that forgets the noise floor of lines 766 and 799.
FiresNoFloor(hist, curr, min_pct) ==
    /\ hist # << >>
    /\ PctAtLeast(curr, hist[Len(hist)], min_pct)

\* Lines 764-775 and 797-808: the observation fires an event.
Fires(hist, curr, min_pct) ==
    /\ hist # << >>
    /\ hist[Len(hist)] > NoiseFloor
    /\ PctAtLeast(curr, hist[Len(hist)], min_pct)

\* PREV_SURGE_CACHE[key].get(strike), with the record line 756 would create.
EmptyEntry == [CE |-> << >>, PE |-> << >>]

EntryOf(cache, key3) == IF key3 \in DOMAIN cache THEN cache[key3] ELSE EmptyEntry

Put(f, k, v) == [x \in DOMAIN f \cup {k} |-> IF x = k THEN v ELSE f[x]]

\* A detector that keeps a price only when it reports it.
SideStepAppendOnFire(acc, r, side, sym, used, under, min_pct) ==
    LET key3 == <<sym, used, r.strike>>
        entry == EntryOf(acc.cache, key3)
        hist == entry[side]
        ltp == LtpOf(r, side)
        vol == IF side = "CE" THEN r.CE_vol ELSE r.PE_vol
    IN IF ~Observed(ltp, r.strike, under, side) \/ ~Fires(hist, ltp, min_pct) THEN acc
       ELSE [cache |-> Put(acc.cache, key3, [entry EXCEPT ![side] = DequeAppend(hist, ltp)]),
             obs |-> Put(acc.obs, key3,
                         [EntryOf(acc.obs, key3) EXCEPT ![side] = Append(@, ltp)]),
             out |-> Append(acc.out, SurgeEvent(sym, used, r.strike, side, hist, ltp, vol))]

\* Lines 760-824 for one side of one row: acc is [cache, obs, out].
SideStep(acc, r, side, sym, used, under, min_pct) ==
    LET key3 == <<sym, used, r.strike>>
        entry == EntryOf(acc.cache, key3)
        hist == entry[side]
        ltp == LtpOf(r, side)
        vol == IF side = "CE" THEN r.CE_vol ELSE r.PE_vol
    IN IF ~Observed(ltp, r.strike, under, side) THEN acc
       ELSE [cache |-> Put(acc.cache, key3, [entry EXCEPT ![side] = DequeAppend(hist, ltp)]),
             obs |-> Put(acc.obs, key3,
                         [EntryOf(acc.obs, key3) EXCEPT ![side] = Append(@, ltp)]),
             out |-> IF Fires(hist, ltp, min_pct)
                     THEN Append(acc.out, SurgeEvent(sym, used, r.strike, side, hist, ltp, vol))
                     ELSE acc.out]

\* Lines 751-824: the rows of one symbol, in order; a row of strike 0 is
\* passed over, any other row gets its cache entry and then CE before PE.
RECURSIVE SurgeRows(_, _, _, _, _, _)
SurgeRows(rows, acc, sym, used, under, min_pct) ==
    IF rows = << >> THEN acc
    ELSE LET r == Head(rows)
             key3 == <<sym, used, r.strike>>
             made == [acc EXCEPT !.cache = Put(acc.cache, key3, EntryOf(acc.cache, key3)),
                                 !.obs = Put(acc.obs, key3, EntryOf(acc.obs, key3))]
             ce == SideStep(made, r, "CE", sym, used, under, min_pct)
             pe == SideStep(ce, r, "PE", sym, used, under, min_pct)
         IN IF r.strike = 0 THEN SurgeRows(Tail(rows), acc, sym, used, under, min_pct)
            ELSE SurgeRows(Tail(rows), pe, sym, used, under, min_pct)

\* A score without the tier bonuses.
scoreBombNoTier(x) ==
    x.pct
    + (IF 2 * x.speed > 3 * x.pct THEN 1000 * Milli ELSE 0)
    + (IF x.type = "INSTITUTIONAL_BOMB" THEN 500 * Milli ELSE 0)

\* A score that falls as pct grows.
scoreBombFalling(x) ==
    (IF x.strength = "NUCLEAR" THEN 5000 * Milli ELSE 0)
    + (IF x.strength = "EXTREME" THEN 2000 * Milli ELSE 0)
    + (IF x.type = "INSTITUTIONAL_BOMB" THEN 500 * Milli ELSE 0)
    - x.pct

\* scoreBomb (lines 830-836), on the rounded fields of the event.
scoreBomb(x) ==
    x.pct
    + (IF x.strength = "NUCLEAR" THEN 5000 * Milli ELSE 0)
    + (IF x.strength = "EXTREME" THEN 2000 * Milli ELSE 0)
    + (IF 2 * x.speed > 3 * x.pct THEN 1000 * Milli ELSE 0)
    + (IF x.type = "INSTITUTIONAL_BOMB" THEN 500 * Milli ELSE 0)

\* out.sort(key=scoreBomb, reverse=True): stable.
RECURSIVE InsertEvent(_, _)
InsertEvent(sorted, e) ==
    IF sorted = << >> THEN <<e>>
    ELSE IF scoreBomb(e) > scoreBomb(Head(sorted)) THEN <<e>> \o sorted
    ELSE <<Head(sorted)>> \o InsertEvent(Tail(sorted), e)

RECURSIVE SortEvents(_)
SortEvents(events) ==
    IF events = << >> THEN << >>
    ELSE InsertEvent(SortEvents(SubSeq(events, 1, Len(events) - 1)), events[Len(events)])

\* The chain the upstream serves for NIFTY, by the two prices that move.
SurgeDoc(ce1050, pe950) ==
    Chain("NIFTY", 1000000, <<E1>>,
          <<Item(1050000, E1, Leg(21000, ce1050, 100000), Leg(25000, 70000, 20000)),
            Item(950000, E1, Leg(14000, 80000, 30000), Leg(22000, pe950, 500000)),
            Item(1005000, E1, Leg(15000, 30000, 500000), Leg(16000, 28000, 400000))>>)

\* The chain it serves for SBIN: a row of strike 0, a call inside the
\* buffer, and an out-of-the-money row that carries no price.
SurgeDocSbin ==
    Chain("SBIN", 500000, <<E1>>,
          <<Item(0, E1, Leg(20000, 9000, 1000), NoLeg),
            Item(505000, E1, Leg(30000, 9000, 1000000), Leg(31000, 8000, 1000)),
            Item(600000, E1, Leg(30000, 0, 1000000), NoLeg)>>)

\* What get_json(oc_url(sym)) of a surge scan can end in, by symbol.
SurgeUpstream(sym) ==
    IF sym = "NIFTY"
    THEN {NoChain("fetch_failed"), SurgeDoc(1004, 5000), SurgeDoc(12000, 54998),
          SurgeDoc(100, 5000), SurgeDoc(0, None)}
    ELSE {NoChain("badrecords"), DocNoUnder, SurgeDocSbin}

SurgeSymbolLists == {<< >>, <<"NIFTY">>, <<"sbin ", "NIFTY">>}

\* min_pct of the request, in percent: the default and one that lets a flat
\* price through.
MinPcts == {200, 0}

\* Lines 736-743 raise or pass the symbol over: nothing of it is looked at.
SurgeSymbolDropped(sym, oc) ==
    \/ oc.kind = "fetch_failed"
    \/ parse_rows_raises(oc)
    \/ parse_rows(oc, ExpiryUsed(sym, oc, NoOverrides)).rows = << >>
    \/ parse_rows(oc, ExpiryUsed(sym, oc, NoOverrides)).underlying = None

\* The cache is empty and no request is in progress.
InitSurge ==
    /\ surgePc = "idle"
    /\ surgeArgs = [symbols |-> << >>, min_pct |-> 0]
    /\ surgeFeed = << >>
    /\ surgeOut = << >>
    /\ PREV_SURGE_CACHE = << >>
    /\ surgeObs = << >>

\* The longest log of appended prices.
LongestObs ==
    LET lens == {0} \cup {Len(surgeObs[k][side]) : k \in DOMAIN surgeObs, side \in {"CE", "PE"}}
    IN CHOOSE n \in lens : \A m \in lens : m <= n

\* Lines 726-733: a request arrives; an empty symbol list is answered at once.
api_premium_surge_begin(symbols, min_pct) ==
    /\ surgePc = "idle"
    /\ LongestObs < MaxObs
    /\ surgeArgs' = [symbols |-> NormaliseSymbols(symbols), min_pct |-> min_pct]
    /\ surgePc' = IF NormaliseSymbols(symbols) = << >> THEN "idle" ELSE "loop"
    /\ surgeFeed' = << >>
    /\ surgeOut' = << >>
    /\ UNCHANGED <<PREV_SURGE_CACHE, surgeObs, notSurge>>

\* Lines 735-827: one iteration of the symbol loop.
api_premium_surge_symbol(oc) ==
    /\ surgePc = "loop"
    /\ Len(surgeFeed) < Len(surgeArgs.symbols)
    /\ LET sym == surgeArgs.symbols[Len(surgeFeed) + 1]
           used == ExpiryUsed(sym, oc, NoOverrides)
           parsed == parse_rows(oc, used)
           acc == SurgeRows(parsed.rows,
                            [cache |-> PREV_SURGE_CACHE, obs |-> surgeObs, out |-> surgeOut],
                            sym, used, parsed.underlying, surgeArgs.min_pct)
       IN /\ oc \in SurgeUpstream(sym)
          /\ IF SurgeSymbolDropped(sym, oc)
             THEN UNCHANGED <<PREV_SURGE_CACHE, surgeObs, surgeOut>>
             ELSE /\ PREV_SURGE_CACHE' = acc.cache
                  /\ surgeObs' = acc.obs
                  /\ surgeOut' = acc.out
    /\ surgeFeed' = Append(surgeFeed, oc)
    /\ UNCHANGED <<surgePc, surgeArgs, notSurge>>

\* Lines 829-839: the events are ranked and the first 50 returned; the
\* locals of the call are gone.
api_premium_surge_return ==
    /\ surgePc = "loop"
    /\ Len(surgeFeed) = Len(surgeArgs.symbols)
    /\ surgePc' = "idle"
    /\ surgeOut' = SubSeq(SortEvents(surgeOut), 1,
                          IF Len(surgeOut) < TopEvents THEN Len(surgeOut) ELSE TopEvents)
    /\ surgeArgs' = [symbols |-> << >>, min_pct |-> 0]
    /\ surgeFeed' = << >>
    /\ UNCHANGED <<PREV_SURGE_CACHE, surgeObs, notSurge>>

NextSurge ==
    \/ \E symbols \in SurgeSymbolLists, min_pct \in MinPcts :
          api_premium_surge_begin(symbols, min_pct)
    \/ \E oc \in SurgeUpstream("NIFTY") \cup SurgeUpstream("SBIN") :
          api_premium_surge_symbol(oc)
    \/ api_premium_surge_return

(***************************************************************************)
(* The normalizer and the signal engine, called on their own               *)
(***************************************************************************)
\* A chain whose two strikes nearest the underlying are equally far, the
\* higher one first in the document; the strike at the underlying has no call.
DocTie ==
    Chain("NIFTY", 1000000, <<E1>>,
          <<Item(1050000, E1, Leg(21000, 5000, 200000), Leg(25000, 70000, 20000)),
            Item(1000000, E1, NoLeg, Leg(16000, 48000, 400000)),
            Item(950000, E1, Leg(14000, 80000, 30000), Leg(22000, 4000, 300000))>>)

\* A chain whose strike at the underlying has both prices and no call IV.
DocIvGap ==
    Chain("SBIN", 500000, <<E1>>,
          <<Item(510000, E1, Leg(21000, 3000, 1000), Leg(23000, 15000, 1000)),
            Item(500000, E1, Leg(None, 9000, 1000), Leg(21000, 8000, 1000))>>)

\* A chain without a strike at the underlying, the nearest one priced 0 on
\* the put side.
DocOffAtm ==
    Chain("SBIN", 500000, <<E1>>,
          <<Item(520000, E1, Leg(24000, 2000, 1000), Leg(26000, 22000, 1000)),
            Item(505000, E1, Leg(20000, 6000, 1000), Leg(21000, 0, 1000))>>)

EngineDocs ==
    {NoChain("falsy"), NoChain("norecords"), NoChain("badrecords"), DocMain, DocQuiet,
     DocZeroUnder, DocNoUnder, DocNoRows, DocTie, DocIvGap, DocOffAtm}

EngineExpiries == {"", E1, E2}

NoSnap == [kind |-> "none", rows |-> << >>, expiries |-> << >>, underlying |-> None,
           symbol_name |-> ""]

NoNearest == [called |-> FALSE, strike |-> None, iv |-> None]

NoStraddleYet == [kind |-> "none", price |-> None, iv |-> None, strike |-> None,
                  label |-> << >>]

\* No call of the engine has been made.
EngineIdle ==
    /\ engSnap = NoSnap
    /\ engNearest = [side \in {"CE", "PE"} |-> NoNearest]
    /\ engStraddle = NoStraddleYet

InitEngineIdle == engDoc = NoChain("falsy") /\ engExpiry = "" /\ EngineIdle

\* A document and a chosen expiry are at hand.
InitEngine == engDoc \in EngineDocs /\ engExpiry \in EngineExpiries /\ EngineIdle

\* A parse_rows that leaves the rows in document order.
normalize_unsorted ==
    /\ engSnap.kind = "none"
    /\ engSnap' =
          IF parse_rows_raises(engDoc) THEN [NoSnap EXCEPT !.kind = "raised"]
          ELSE IF engDoc.kind # "chain"
          THEN [kind |-> "value"] @@ parse_rows(engDoc, engExpiry)
          ELSE [kind |-> "value",
                rows |-> MapRows(engDoc.data, engExpiry, engDoc.index,
                                 safe_float(engDoc.underlyingValue)),
                expiries |-> engDoc.expiryDates,
                underlying |-> safe_float(engDoc.underlyingValue),
                symbol_name |-> engDoc.index]
    /\ UNCHANGED <<engDoc, engExpiry, engNearest, engStraddle, notEng>>

\* parse_rows(oc_json, chosen_expiry) is called (lines 79-110).
normalize ==
    /\ engSnap.kind = "none"
    /\ engSnap' =
          IF parse_rows_raises(engDoc) THEN [NoSnap EXCEPT !.kind = "raised"]
          ELSE [kind |-> "value"] @@ parse_rows(engDoc, engExpiry)
    /\ UNCHANGED <<engDoc, engExpiry, engNearest, engStraddle, notEng>>

\* nearest_strike_iv(rows, under, side) is called on the snapshot, as lines
\* 197-202 do: with rows and an underlying.
nearest(side) ==
    /\ engSnap.kind = "value"
    /\ engSnap.rows # << >>
    /\ engSnap.underlying # None
    /\ ~engNearest[side].called
    /\ engNearest' =
          [engNearest EXCEPT
              ![side] = [called |-> TRUE] @@
                        nearest_strike_iv(engSnap.rows, engSnap.underlying, side)]
    /\ UNCHANGED <<engDoc, engExpiry, engSnap, engStraddle, notEng>>

\* get_straddle_info(rows, under) is called on the snapshot (line 614).
straddle ==
    /\ engSnap.kind = "value"
    /\ engStraddle.kind = "none"
    /\ engStraddle' = get_straddle_info(engSnap.rows, engSnap.underlying)
    /\ UNCHANGED <<engDoc, engExpiry, engSnap, engNearest, notEng>>

NextEngine ==
    \/ normalize
    \/ \E side \in {"CE", "PE"} : nearest(side)
    \/ straddle

(***************************************************************************)
(* The ranking of surge events, called on its own                          *)
(***************************************************************************)
\* Events the detector emits, by the history of the key, the current price
\* and the volume (NIFTY: lot size 25).
RankEvent(hist, curr, vol) == SurgeEvent("NIFTY", E1, 1050000, "CE", hist, curr, vol)

EventPool ==
    {RankEvent(<<1000>>, 11000, 100000),               \* 1000.0 NUCLEAR, no bonus
     RankEvent(<<1004>>, 12000, 100000),               \* 1095.2 NUCLEAR
     RankEvent(<<100, 5000, 5000>>, 54998, 500000),    \* 1000.0 EXTREME, every bonus
     RankEvent(<<1000, 1000, 2000>>, 12000, 100000),   \* 500.0 EXTREME, speed 1100.0
     RankEvent(<<1000, 1000, 1714>>, 12000, 100000),   \* 600.1 EXTREME, speed 1100.0
     RankEvent(<<1000, 1000, 1400>>, 12000, 100000),   \* 757.1 EXTREME, speed 1100.0
     RankEvent(<<3000>>, 12000, 500000),               \* 300.0 STRONG
     RankEvent(<<12000>>, 1004, 100000)}               \* -91.6 GOOD

\* One event more than the scan returns, the pool taken round and round.
RECURSIVE PoolCycle(_, _)
PoolCycle(n, rest) ==
    IF n = 0 THEN << >>
    ELSE IF rest = {} THEN PoolCycle(n, EventPool)
    ELSE LET e == CHOOSE x \in rest : TRUE
         IN <<e>> \o PoolCycle(n - 1, rest \ {e})

RankLists ==
    {<<x>> : x \in EventPool}
        \cup {<<x, y>> : x \in EventPool, y \in EventPool}
        \cup {PoolCycle(TopEvents + 2, EventPool)}

NoRanking == [kind |-> "none", data |-> << >>]

RankIdle == rankIn = << >> /\ rankOut = NoRanking

\* The symbol loop is over with these events in out.
InitRank == rankIn \in RankLists /\ rankOut = NoRanking

\* Lines 838-839: out.sort(key=scoreBomb, reverse=True); out[:50].
rank ==
    /\ rankOut.kind = "none"
    /\ rankIn # << >>
    /\ rankOut' = [kind |-> "value",
                   data |-> SubSeq(SortEvents(rankIn), 1,
                                   IF Len(rankIn) < TopEvents THEN Len(rankIn) ELSE TopEvents)]
    /\ UNCHANGED <<rankIn, notRank>>

NextRank == rank

(***************************************************************************)
(* api_strategy_ltp_scan: the strategy/LTP spread scan                     *)
(***************************************************************************)
\* LOT_SIZES (lines 385-599) and lot_for (lines 601-602).
lot_for(sym) ==
    IF sym = "NIFTY" THEN 75
    ELSE IF sym = "BANKNIFTY" THEN 35
    ELSE IF sym = "RELIANCE" THEN 500
    ELSE IF sym = "SBIN" THEN 750
    ELSE IF sym = "TCS" THEN 175
    ELSE 1

\* Lines 369-370: the symbols scanned when the request names none.
DefaultLtpSymbols == <<"NIFTY", "BANKNIFTY", "RELIANCE", "TCS">>

\* The band test without its lower end.
InBandUpTo(net, target, tolerance) == Abs(net) <= target + tolerance

\* Line 672: (target - tolerance) <= abs_net <= (target + tolerance).
InBand(net, target, tolerance) ==
    /\ target - tolerance <= Abs(net)
    /\ Abs(net) <= target + tolerance

\* Lines 620-626: the row enters strike_map (under > 0; the bounds in percent).
InWindow(r, under, args) ==
    /\ r.strike # 0
    /\ ~(Abs(r.strike - under) * 100 < args.atm_from_pct * under)
    /\ ~(Abs(r.strike - under) * 100 > args.atm_to_pct * under)

\* sorted(strike_map.keys()), as a set.
StrikeKeys(rows, under, args) ==
    {rows[j].strike : j \in {i \in 1..Len(rows) : InWindow(rows[i], under, args)}}

\* strike_map[strike][side + "_ltp"]: the last row of the strike wrote it.
MapLtp(rows, strike, side) ==
    LET js == {j \in 1..Len(rows) : rows[j].strike = strike}
        last == CHOOSE j \in js : \A i \in js : i <= j
    IN LtpOf(rows[last], side)

\* Line 637: min(strikes, key=lambda x: abs(x - under)), strikes ascending.
LtpAtm(strikes, under) ==
    CHOOSE x \in strikes :
        \A y \in strikes : \/ Abs(x - under) < Abs(y - under)
                           \/ (Abs(x - under) = Abs(y - under) /\ x <= y)

\* Line 669.
NetOf(buy_ltp, sell_ltp, args) == buy_ltp * args.buy_lots - sell_ltp * args.sell_lots

\* Lines 646-672: the pair passes every test of the loops.
PairMatches(rows, under, args, side_name, buy_strike, sell_strike) ==
    LET strikes == StrikeKeys(rows, under, args)
        atm_strike == LtpAtm(strikes, under)
        buy_ltp == MapLtp(rows, buy_strike, side_name)
        sell_ltp == MapLtp(rows, sell_strike, side_name)
        diff == Abs(sell_strike - buy_strike) * 100
    IN /\ ~(side_name = "CE" /\ buy_strike < atm_strike)
       /\ ~(side_name = "PE" /\ buy_strike > atm_strike)
       /\ buy_ltp # None
       /\ IF side_name = "CE" THEN sell_strike > buy_strike ELSE sell_strike < buy_strike
       /\ sell_ltp # None
       /\ ~(diff < args.min_strike_diff * under)
       /\ ~(diff > args.max_strike_diff * under)
       /\ InBand(NetOf(buy_ltp, sell_ltp, args), args.target, args.tolerance)

\* Lines 673-686.
MatchOf(sym, used, rows, args, side_name, buy_strike, sell_strike) ==
    LET buy_ltp == MapLtp(rows, buy_strike, side_name)
        sell_ltp == MapLtp(rows, sell_strike, side_name)
        net == NetOf(buy_ltp, sell_ltp, args)
    IN [buy_strike |-> buy_strike,
        sell_strike |-> sell_strike,
        buy_side |-> side_name,
        sell_side |-> side_name,
        buy_ltp |-> Round2(buy_ltp),
        sell_ltp |-> Round2(sell_ltp),
        net_per_lot |-> Round2(net),
        total_pnl |-> RoundDiv(net * lot_for(sym), Milli),
        lot_size |-> lot_for(sym),
        expiry |-> used]

\* The order the loops of lines 641-661 visit the pairs in: the side (CE
\* first), then the buy strike, then the sell strike, both ascending.
PairBefore(a, b) ==
    \/ a.side = "CE" /\ b.side = "PE"
    \/ a.side = b.side /\ a.buy < b.buy
    \/ a.side = b.side /\ a.buy = b.buy /\ a.sell < b.sell

RECURSIVE InVisitOrder(_)
InVisitOrder(pairs) ==
    IF pairs = {} THEN << >>
    ELSE LET first == CHOOSE a \in pairs : \A b \in pairs \ {a} : PairBefore(a, b)
         IN <<first>> \o InVisitOrder(pairs \ {first})

\* matches (lines 636-686), for rows with a non-empty strike_map.
LtpMatches(sym, used, rows, under, args) ==
    LET strikes == StrikeKeys(rows, under, args)
        sides == IF args.side = "ALL" THEN {"CE", "PE"} ELSE {args.side}
        pairs == {a \in [side : sides, buy : strikes, sell : strikes] :
                     PairMatches(rows, under, args, a.side, a.buy, a.sell)}
        order == InVisitOrder(pairs)
    IN [k \in 1..Len(order) |->
           MatchOf(sym, used, rows, args, order[k].side, order[k].buy, order[k].sell)]

\* Lines 607-624 raise for this symbol: the fetch, parse_rows, the straddle
\* computed at line 614, or line 624 dividing by an underlying of 0.
LtpSymbolRaises(sym, oc, args) ==
    \/ oc.kind = "fetch_failed"
    \/ parse_rows_raises(oc)
    \/ \E parsed \in {parse_rows(oc, ExpiryUsed(sym, oc, args.overrides))} :
          \/ get_straddle_info(parsed.rows, parsed.underlying).kind = "raised"
          \/ /\ parsed.underlying = 0
             /\ \E j \in 1..Len(parsed.rows) : parsed.rows[j].strike # 0

\* The entry line 689 appends for the symbol, << >> when lines 615, 632 or
\* 688 pass it over.
LtpEntry(sym, oc, args) ==
    LET used == ExpiryUsed(sym, oc, args.overrides)
    IN CHOOSE entry \in
          {IF parsed.rows = << >> \/ parsed.underlying = None THEN << >>
           ELSE IF StrikeKeys(parsed.rows, parsed.underlying, args) = {} THEN << >>
           ELSE LET matches == LtpMatches(sym, used, parsed.rows, parsed.underlying, args)
                IN IF matches = << >> THEN << >>
                   ELSE <<[symbol |-> sym,
                           underlying |-> parsed.underlying,
                           expiry_used |-> used,
                           matches |-> matches]>> :
             parsed \in {parse_rows(oc, used)}} : TRUE

\* A chain whose spreads around the underlying lie on both sides of 0.
DocSpread ==
    Chain("NIFTY", 1000000, <<E1>>,
          <<Item(1000000, E1, Leg(15000, 50000, 1000), Leg(16000, 48000, 1000)),
            Item(1020000, E1, Leg(17000, 18500, 1000), Leg(18000, 60000, 1000)),
            Item(1050000, E1, Leg(19000, 14504, 1000), Leg(20000, 80000, 1000)),
            Item(1005000, E1, Leg(16000, 15000, 1000), NoLeg),
            Item(980000, E1, NoLeg, Leg(17000, 14000, 1000)),
            Item(960000, E1, Leg(14000, 70000, 1000), Leg(19000, 18000, 1000)),
            Item(1100000, E1, Leg(25000, 14500, 1000), Leg(26000, 120000, 1000)),
            Item(0, E1, Leg(20000, 15000, 1000), NoLeg)>>)

\* What get_json(oc_url(sym)) answers in a spread scan.
LtpUpstream(sym) ==
    IF sym = "NIFTY" THEN {NoChain("fetch_failed"), DocSpread, DocMain}
    ELSE IF sym = "SBIN" THEN {DocIvGap, DocZeroUnder, DocNoUnder, DocQuiet}
    ELSE {NoChain("falsy"), NoChain("badrecords")}

LtpSymbolLists == {<< >>, <<"NIFTY">>, <<"sbin ", "NIFTY">>}

\* buy_lots and sell_lots of the request: the defaults, the reverse, and a
\* value int() refuses.
LotChoices == {<<1, 3>>, <<3, 1>>, <<NotANumber, 3>>}

\* target_diff and tolerance: the defaults, and a tolerance above the target.
BandChoices == {<<6000, 1000>>, <<500, 1000>>}

\* atm_from_pct, atm_to_pct, min_strike_diff, max_strike_diff, in percent:
\* the defaults, and a window that leaves the strike at the underlying out.
WindowChoices == {<<0, 5, 1, 10>>, <<1, 5, 0, 10>>}

LtpIdle ==
    /\ ltpPc = "idle"
    /\ ltpArgs = [symbols |-> << >>, buy_lots |-> 1, sell_lots |-> 3, target |-> 6000,
                  tolerance |-> 1000, side |-> "ALL", atm_from_pct |-> 0,
                  atm_to_pct |-> 5, min_strike_diff |-> 1, max_strike_diff |-> 10,
                  overrides |-> NoOverrides]
    /\ ltpFeed = << >>
    /\ ltpOut = << >>

\* Lines 367-383: the inputs are read; a value int() or float() refuses is
\* answered with 400 "Invalid inputs".
api_strategy_ltp_scan_begin(symbols, lots, band, side, window) ==
    /\ ltpPc = "idle"
    /\ ltpArgs' = [symbols |-> IF NormaliseSymbols(symbols) = << >>
                               THEN DefaultLtpSymbols ELSE NormaliseSymbols(symbols),
                   buy_lots |-> lots[1], sell_lots |-> lots[2],
                   target |-> band[1], tolerance |-> band[2], side |-> side,
                   atm_from_pct |-> window[1], atm_to_pct |-> window[2],
                   min_strike_diff |-> window[3], max_strike_diff |-> window[4],
                   overrides |-> NoOverrides]
    /\ ltpPc' = IF NotANumber \in {lots[1], lots[2]} THEN "invalid" ELSE "loop"
    /\ UNCHANGED <<ltpFeed, ltpOut, notLtp>>

\* Lines 605-698: one iteration of the symbol loop.
api_strategy_ltp_scan_symbol(oc) ==
    /\ ltpPc = "loop"
    /\ Len(ltpFeed) < Len(ltpArgs.symbols)
    /\ oc \in LtpUpstream(ltpArgs.symbols[Len(ltpFeed) + 1])
    /\ LET sym == ltpArgs.symbols[Len(ltpFeed) + 1]
       IN IF LtpSymbolRaises(sym, oc, ltpArgs)
          THEN ltpOut' = ltpOut
          ELSE ltpOut' = ltpOut \o LtpEntry(sym, oc, ltpArgs)
    /\ ltpFeed' = Append(ltpFeed, oc)
    /\ UNCHANGED <<ltpPc, ltpArgs, notLtp>>

\* Line 700: the loop is over, {"data": out} is returned.
api_strategy_ltp_scan_return ==
    /\ ltpPc = "loop"
    /\ Len(ltpFeed) = Len(ltpArgs.symbols)
    /\ ltpPc' = "done"
    /\ UNCHANGED <<ltpArgs, ltpFeed, ltpOut, notLtp>>

NextLtp ==
    \/ \E symbols \in LtpSymbolLists, lots \in LotChoices, band \in BandChoices,
          side \in Sides, window \in WindowChoices :
          api_strategy_ltp_scan_begin(symbols, lots, band, side, window)
    \/ \E oc \in UNION {LtpUpstream(sym) : sym \in {"NIFTY", "SBIN", "TCS"}} :
          api_strategy_ltp_scan_symbol(oc)
    \/ api_strategy_ltp_scan_return

(***************************************************************************)
(* api_breakout_scan: the breakout route                                   *)
(***************************************************************************)
\* A field of the JSON payload: absent, null, a number, a text or a list.
Field(kind, val, text) == [kind |-> kind, val |-> val, text |-> text]

Absent == Field("absent", 0, "")

Null == Field("null", 0, "")

Num(v) == Field("number", v, "")

Text(t) == Field("text", 0, t)

AList == Field("list", 0, "")

\* float(x): the number, ValueError for a text that is not one, TypeError for
\* None and for a list.
float(x) ==
    IF x.kind = "number" THEN [kind |-> "value", val |-> x.val]
    ELSE IF x.kind = "text"
    THEN IF x.text = "6.5" THEN [kind |-> "value", val |-> 6500]
         ELSE [kind |-> "ValueError", val |-> 0]
    ELSE [kind |-> "TypeError", val |-> 0]

\* data.get("threshold", 5.0): the default only where the key is absent.
ThresholdRead(req) ==
    IF req.threshold.kind = "absent" THEN Num(5000) ELSE req.threshold

\* s.upper() of the side texts a caller may send.
Upper(s) == IF s = "ce" THEN "CE" ELSE IF s = "xx" THEN "XX" ELSE s

\* Line 321: (data.get("side") or "ALL").upper(). A falsy value gives "ALL";
\* a truthy value that is not a text has no upper() and raises.
SideRead(req) ==
    IF req.side.kind \in {"absent", "null"} THEN [kind |-> "value", text |-> "ALL"]
    ELSE IF req.side.kind = "text"
    THEN [kind |-> "value", text |-> IF req.side.text = "" THEN "ALL"
                                      ELSE Upper(req.side.text)]
    ELSE IF req.side.kind = "number" /\ req.side.val = 0
    THEN [kind |-> "value", text |-> "ALL"]
    ELSE [kind |-> "AttributeError", text |-> ""]

BreakoutSymbolLists == {<< >>, <<"">>, <<"NIFTY">>, <<"sbin ", "NIFTY">>}

ThresholdFields == {Absent, Null, Num(6500), Num(-1000), Text("abc"), Text("6.5"), AList}

SideFields == {Absent, Text(""), Text("ce"), Text("xx"), Num(5)}

\* The payloads of a request; symbols is the list sent, << >> where the key
\* is absent or null (line 312 reads both as []).
BreakoutRequests ==
    [symbols : BreakoutSymbolLists, threshold : ThresholdFields, side : SideFields,
     expiry_overrides : OverridesChoices]

NoAnswer == [status |-> 0, error |-> ""]

\* No breakout request in progress.
BreakoutIdle ==
    /\ boPc = "idle"
    /\ boReq = [symbols |-> << >>, threshold |-> Absent, side |-> Absent,
                expiry_overrides |-> NoOverrides]
    /\ boAnswer = NoAnswer

\* The request is answered without a scan: a return of lines 314-323, or an
\* exception nothing in the route catches (HTTP 500).
Answered(status, error) ==
    /\ boPc' = "answered"
    /\ boAnswer' = [status |-> status, error |-> error]
    /\ UNCHANGED scanVars

\* Lines 311-326: the payload is read and validated in the order symbols,
\* threshold, side; a valid one enters scan_symbols (lines 184-187).
api_breakout_scan(req) ==
    /\ boPc = "idle"
    /\ scanPc = "idle"
    /\ boReq' = req
    /\ LET symbols == NormaliseSymbols(req.symbols)
           thr == float(ThresholdRead(req))
           side == SideRead(req)
       IN IF symbols = << >> THEN Answered(400, "At least one symbol required")
          ELSE IF thr.kind = "TypeError" THEN Answered(500, "TypeError")
          ELSE IF thr.kind = "ValueError" THEN Answered(400, "Invalid threshold")
          ELSE IF thr.val < 0 THEN Answered(400, "Threshold must be >=0")
          ELSE IF side.kind = "AttributeError" THEN Answered(500, "AttributeError")
          ELSE IF side.text \notin Sides
          THEN Answered(400, "Side must be ALL, CE, or PE")
          ELSE /\ boPc' = "scan"
               /\ boAnswer' = boAnswer
               /\ scanPc' = "loop"
               /\ scanArgs' = [symbols |-> NormaliseSymbols(symbols),
                               thr |-> thr.val, side |-> side.text,
                               overrides |-> req.expiry_overrides]
               /\ scanFeed' = << >>
               /\ scanOut' = << >>
    /\ UNCHANGED notBo

\* Line 327: scan_symbols has returned, {"data": out, "ts": ...} is the answer.
api_breakout_scan_answer ==
    /\ boPc = "scan"
    /\ scanPc = "done"
    /\ boPc' = "answered"
    /\ boAnswer' = [status |-> 200, error |-> ""]
    /\ UNCHANGED <<boReq, scanVars, notBo>>

NextBreakout ==
    \/ \E req \in BreakoutRequests : api_breakout_scan(req)
    \/ \E oc \in Upstream : scan_symbol(oc)
    \/ scan_symbols_return
    \/ api_breakout_scan_answer

(***************************************************************************)
(* api_premium_surge under two threads                                     *)
(***************************************************************************)
\* The two request threads of the threading server.
Threads == {1, 2}

\* The observation both requests make: the CE price of one out-of-the-money
\* strike of a key (sym, used) that PREV_SURGE_CACHE already holds.
RaceStrike == 1050 * Milli

RacePrices == {5000, 12000}

RaceIdleLocal == [ce |-> 0, min_pct |-> 0, cache |-> 0, out |-> << >>]

\* No request in either thread; the strike has no record.
RaceIdle ==
    /\ racePc = [t \in Threads |-> "idle"]
    /\ raceLocal = [t \in Threads |-> RaceIdleLocal]
    /\ raceCache = 0
    /\ raceHeap = << >>
    /\ raceStart = << >>

\* The strike is new to the cache, or an earlier scan left one price.
InitRace ==
    /\ racePc = [t \in Threads |-> "idle"]
    /\ raceLocal = [t \in Threads |-> RaceIdleLocal]
    /\ raceStart \in {<< >>, <<1004>>}
    /\ raceCache = (IF raceStart = << >> THEN 0 ELSE 1)
    /\ raceHeap = (IF raceStart = << >> THEN << >> ELSE <<raceStart>>)

\* Thread t reaches the row of the strike with the price ce (lines 752-754).
surge_row(t, ce, min_pct) ==
    /\ racePc[t] = "idle"
    /\ racePc' = [racePc EXCEPT ![t] = "check"]
    /\ raceLocal' = [raceLocal EXCEPT ![t] = [RaceIdleLocal EXCEPT !.ce = ce,
                                                              !.min_pct = min_pct]]
    /\ UNCHANGED <<raceCache, raceHeap, raceStart, notRace>>

\* Line 755: if strike not in PREV_SURGE_CACHE[key].
surge_check(t) ==
    /\ racePc[t] = "check"
    /\ racePc' = [racePc EXCEPT ![t] = IF raceCache = 0 THEN "create" ELSE "fetch"]
    /\ UNCHANGED <<raceLocal, raceCache, raceHeap, raceStart, notRace>>

\* Line 756: a new record with empty deques is stored under the strike.
surge_create(t) ==
    /\ racePc[t] = "create"
    /\ raceHeap' = Append(raceHeap, << >>)
    /\ raceCache' = Len(raceHeap) + 1
    /\ racePc' = [racePc EXCEPT ![t] = "fetch"]
    /\ UNCHANGED <<raceLocal, raceStart, notRace>>

\* Line 758: cache = PREV_SURGE_CACHE[key][strike].
surge_fetch(t) ==
    /\ racePc[t] = "fetch"
    /\ raceLocal' = [raceLocal EXCEPT ![t].cache = raceCache]
    /\ racePc' = [racePc EXCEPT ![t] = "read"]
    /\ UNCHANGED <<raceCache, raceHeap, raceStart, notRace>>

\* Lines 764-790: prev, pct and speed are read from the deque and the event,
\* if one fires, goes to the request's out.
surge_read(t) ==
    /\ racePc[t] = "read"
    /\ LET hist == raceHeap[raceLocal[t].cache]
           ce == raceLocal[t].ce
       IN raceLocal' = [raceLocal EXCEPT ![t].out =
              IF Fires(hist, ce, raceLocal[t].min_pct)
              THEN <<SurgeEvent("NIFTY", E1, RaceStrike, "CE", hist, ce, None)>>
              ELSE << >>]
    /\ racePc' = [racePc EXCEPT ![t] = "append"]
    /\ UNCHANGED <<raceCache, raceHeap, raceStart, notRace>>

\* Line 791: cache["CE"].append(ce).
surge_append(t) ==
    /\ racePc[t] = "append"
    /\ raceHeap' = [raceHeap EXCEPT ![raceLocal[t].cache] = DequeAppend(@, raceLocal[t].ce)]
    /\ racePc' = [racePc EXCEPT ![t] = "done"]
    /\ UNCHANGED <<raceLocal, raceCache, raceStart, notRace>>

NextRace ==
    \/ \E t \in Threads, ce \in RacePrices, min_pct \in MinPcts : surge_row(t, ce, min_pct)
    \/ \E t \in Threads : surge_check(t)
    \/ \E t \in Threads : surge_create(t)
    \/ \E t \in Threads : surge_fetch(t)
    \/ \E t \in Threads : surge_read(t)
    \/ \E t \in Threads : surge_append(t)

(***************************************************************************)
(* The specifications                                                      *)
(***************************************************************************)
Init == InitRT /\ FetchIdle /\ ScanIdle /\ InitSurge /\ InitEngineIdle /\ RankIdle /\ LtpIdle /\ BreakoutIdle /\ RaceIdle

Spec == Init /\ [][NextRT]_vars

InitSpecFetch == InitFetch /\ InitRT /\ ScanIdle /\ InitSurge /\ InitEngineIdle /\ RankIdle /\ LtpIdle /\ BreakoutIdle /\ RaceIdle

SpecFetch == InitSpecFetch /\ [][NextFetch]_vars

InitSpecScan == InitRT /\ FetchIdle /\ ScanIdle /\ InitSurge /\ InitEngineIdle /\ RankIdle /\ LtpIdle /\ BreakoutIdle /\ RaceIdle

SpecScan == InitSpecScan /\ [][NextScan]_vars

InitSpecSurge == InitRT /\ FetchIdle /\ ScanIdle /\ InitSurge /\ InitEngineIdle /\ RankIdle /\ LtpIdle /\ BreakoutIdle /\ RaceIdle

SpecSurge == InitSpecSurge /\ [][NextSurge]_vars

InitSpecEngine == InitRT /\ FetchIdle /\ ScanIdle /\ InitSurge /\ InitEngine /\ RankIdle /\ LtpIdle /\ BreakoutIdle /\ RaceIdle

SpecEngine == InitSpecEngine /\ [][NextEngine]_vars

InitSpecRank ==
    InitRT /\ FetchIdle /\ ScanIdle /\ InitSurge /\ InitEngineIdle /\ InitRank /\ LtpIdle /\ BreakoutIdle /\ RaceIdle

SpecRank == InitSpecRank /\ [][NextRank]_vars

InitSpecLtp ==
    InitRT /\ FetchIdle /\ ScanIdle /\ InitSurge /\ InitEngineIdle /\ RankIdle /\ LtpIdle /\ BreakoutIdle /\ RaceIdle

SpecLtp == InitSpecLtp /\ [][NextLtp]_vars

InitSpecBreakout ==
    InitRT /\ FetchIdle /\ ScanIdle /\ InitSurge /\ InitEngineIdle /\ RankIdle /\ LtpIdle
        /\ BreakoutIdle /\ RaceIdle

SpecBreakout == InitSpecBreakout /\ [][NextBreakout]_vars

InitSpecRace ==
    InitRT /\ FetchIdle /\ ScanIdle /\ InitSurge /\ InitEngineIdle /\ RankIdle /\ LtpIdle
        /\ BreakoutIdle /\ InitRace

SpecRace == InitSpecRace /\ [][NextRace]_vars

(***************************************************************************)
(* Claims about the realtime sessions, under Spec                          *)
(***************************************************************************)
\* The emit of line 883: loop l publishes an update in this step.
Publishes(l) ==
    /\ loops[l].pc = "scan"
    /\ loops'[l].pc = "check"
    /\ loops'[l].slept = 0

\* Loop l passes its while condition in this step and does not leave the loop.
StaysAfterCheck(l) == loops[l].pc = "check" /\ loops'[l].pc = "scan"

\* C1 (as claimed): a loop whose session was Running when a further "start"
\* of its client arrived exits at its next check of the running flag, so it
\* never passes that check into another scan and publish.
C1_ReplacedLoopExits ==
    [][\A l \in DOMAIN loops : loops[l].signal = "start" => ~StaysAfterCheck(l)]_vars

\* C2 (as claimed): a loop whose Running session received "stop" exits at its
\* next check of the running flag, whatever arrives before that check.
C2_StoppedLoopExits ==
    [][\A l \in DOMAIN loops : loops[l].signal = "stop" => ~StaysAfterCheck(l)]_vars

\* C3 (as claimed): between two consecutive publishes of one loop there is an
\* interval sleep.
C3_SleepBetweenPublishes ==
    [][\A l \in DOMAIN loops :
          (Publishes(l) /\ loops[l].published) => loops[l].slept > 0]_vars

\* C4: once a client has disconnected the registry holds no record for it, a
\* loop of that client leaves at its next check of the running flag, and a
\* loop that has left never runs or publishes again.
C4_DisconnectEndsSession ==
    [][\A c \in Sids :
          sidState'[c] = "gone" =>
             /\ c \notin DOMAIN realtime_tasks'
             /\ \A l \in DOMAIN loops :
                   (loops[l].sid = c /\ sidState[c] = "gone") =>
                      /\ ~StaysAfterCheck(l)
                      /\ loops[l].pc = "done" => loops'[l] = loops[l]]_vars

\* C4 witness: a loop that had published ended because its client disconnected
\* (no "stop" and no further "start" was aimed at it).
C4_Witness ==
    \E l \in DOMAIN loops :
        /\ sidState[loops[l].sid] = "gone"
        /\ loops[l].pc = "done"
        /\ loops[l].published
        /\ loops[l].signal = "none"

(***************************************************************************)
(* Claims about get_json, under SpecFetch                                  *)
(***************************************************************************)
\* Request i was answered with status 200 and a body that parses as JSON.
GoodAnswer(i) == Requests[i].status = 200 /\ IsJson(Requests[i].body)

FetchExhausted == [kind |-> "error", value |-> << >>, error |-> "RuntimeError: NSE fetch failed"]

\* C5 (as claimed): at most 3 requests; a request answered with status 200 is
\* the last one and the call has returned its parsed body; a call that ended
\* with no request answered 200 made 3 requests and failed as exhausted.
C5_ReturnsFirst200 ==
    /\ Len(Requests) <= Retries
    /\ \A i \in 1..Len(Requests) :
          Requests[i].status = 200 =>
             /\ i = Len(Requests)
             /\ fpc = "returned"
             /\ fetchResult.kind = "value"
             /\ fetchResult.value = ParseJson(Requests[i].body)
    /\ (fpc \in {"returned", "raised", "failed"}
          /\ \A i \in 1..Len(Requests) : Requests[i].status # 200) =>
             /\ fpc = "failed"
             /\ Len(Requests) = Retries
             /\ fetchResult = FetchExhausted

\* C5 (amended): at most 3 requests, one per iteration; a request answered
\* with 200 and a body that parses is the last one and the call has returned
\* what that body parses to; a returned call ends in such a request; a call
\* that failed as exhausted made 3 requests none of which was such an answer;
\* the only other end is the parse error of a 200 answer, and only where
\* r.json() raises it outside requests.RequestException.
C5_ReturnsFirstParsed200 ==
    /\ Len(Requests) <= Retries
    /\ fpc \in {"loop", "failed"} => Len(Requests) = attempt
    /\ \A i \in 1..Len(Requests) :
          GoodAnswer(i) =>
             /\ i = Len(Requests)
             /\ fpc = "returned"
             /\ fetchResult = [kind |-> "value", value |-> ParseJson(Requests[i].body),
                               error |-> ""]
    /\ fpc = "returned" => Len(Requests) >= 1 /\ GoodAnswer(Len(Requests))
    /\ fpc = "failed" =>
          /\ Len(Requests) = Retries
          /\ \A i \in 1..Len(Requests) : ~GoodAnswer(i)
          /\ fetchResult = FetchExhausted
    /\ fpc = "raised" =>
          /\ ~jsonErrorCaught
          /\ Len(Requests) >= 1
          /\ Requests[Len(Requests)].status = 200
          /\ ~IsJson(Requests[Len(Requests)].body)
          /\ fetchResult.error = "JSONDecodeError"
    /\ fpc \in {"idle", "loop"} => fetchResult.kind = "none"

\* C5 witness: the third request was answered with a parsed 200 body and
\* returned, after a first 200 answer whose body did not parse was retried.
C5_Witness ==
    /\ fpc = "returned"
    /\ Len(Requests) = Retries
    /\ Requests[1].status = 200
    /\ fetchResult.value = <<22>>

(***************************************************************************)
(* Claims about scan_symbols, under SpecScan                               *)
(***************************************************************************)
\* The i-th requested symbol neither failed nor lacked rows or an underlying.
Yields(i) ==
    /\ ~SymbolRaises(scanArgs.symbols[i], scanFeed[i], scanArgs.thr, scanArgs.side,
                     scanArgs.overrides)
    /\ ~SymbolSkipped(scanArgs.symbols[i], scanFeed[i], scanArgs.overrides)

\* The symbols among the first n requested that yield, in input order.
RECURSIVE YieldingSymbols(_)
YieldingSymbols(n) ==
    IF n = 0 THEN << >>
    ELSE IF Yields(n) THEN Append(YieldingSymbols(n - 1), scanArgs.symbols[n])
    ELSE YieldingSymbols(n - 1)

\* C6: a scan never aborts because of one symbol: when it returns every
\* requested symbol has been tried, and out holds, in input order, exactly
\* one result for each symbol that neither failed (fetch or processing) nor
\* yielded no rows or no underlying price.
C6_ScanIsolatesSymbols ==
    /\ scanPc \in {"idle", "loop", "done"}
    /\ scanPc = "done" => Len(scanFeed) = Len(scanArgs.symbols)
    /\ [i \in 1..Len(scanOut) |-> scanOut[i].symbol] = YieldingSymbols(Len(scanFeed))

\* C6 witness: a returned scan of two symbols whose first symbol's fetch
\* failed and whose second symbol is in the result.
C6_Witness ==
    /\ scanPc = "done"
    /\ Len(scanArgs.symbols) = 2
    /\ scanFeed[1].kind = "fetch_failed"
    /\ Len(scanOut) = 1
    /\ scanOut[1].symbol = scanArgs.symbols[2]

\* The hit lists of the results returned so far.
HitLists == {scanOut[i].ce_hits : i \in 1..Len(scanOut)}
               \cup {scanOut[i].pe_hits : i \in 1..Len(scanOut)}

\* C10 (as claimed): hits are ordered by increment descending, and hits of
\* equal increment by distancePercent descending (farther strike first).
C10_HitsFartherFirst ==
    \A hits \in HitLists : \A i, j \in 1..Len(hits) :
        i < j =>
           \/ hits[i].inc > hits[j].inc
           \/ hits[i].inc = hits[j].inc /\ hits[i].dist_pct >= hits[j].dist_pct

\* C10 (amended): hits are ordered by increment descending, and hits of equal
\* increment by distancePercent ascending (the strike nearer to the
\* underlying first).
C10_HitsNearerFirst ==
    \A hits \in HitLists : \A i, j \in 1..Len(hits) :
        i < j =>
           \/ hits[i].inc > hits[j].inc
           \/ hits[i].inc = hits[j].inc /\ hits[i].dist_pct <= hits[j].dist_pct

\* C10 witness: a returned PE hit list with two hits of equal increment and
\* different distance, which the sort had to reorder (rows come by strike).
C10_Witness ==
    \E i \in 1..Len(scanOut) :
        /\ Len(scanOut[i].pe_hits) = 2
        /\ scanOut[i].pe_hits[1].inc = scanOut[i].pe_hits[2].inc
        /\ scanOut[i].pe_hits[1].dist_pct < scanOut[i].pe_hits[2].dist_pct
        /\ scanOut[i].pe_hits[1].strike > scanOut[i].pe_hits[2].strike

(***************************************************************************)
(* Claims about the surge detector (SpecSurge)                             *)
(***************************************************************************)
\* The last n entries of a sequence.
LastN(s, n) == IF Len(s) <= n THEN s ELSE SubSeq(s, Len(s) - n + 1, Len(s))

\* What a map of histories holds under a key: nothing if the key is absent.
HistOf(f, sym, used, strike, side) ==
    IF <<sym, used, strike>> \in DOMAIN f THEN f[<<sym, used, strike>>][side] ELSE << >>

\* This step is one iteration of the symbol loop of a premium-surge scan.
SurgeSymbolStep == surgePc = "loop" /\ Len(surgeFeed') = Len(surgeFeed) + 1

\* The symbol of that iteration, what the upstream answered, and what the
\* normalizer made of the answer.
StepSym == surgeArgs.symbols[Len(surgeFeed')]

StepDoc == surgeFeed'[Len(surgeFeed')]

StepUsed ==
    IF StepDoc.expiryDates # << >> THEN StepDoc.expiryDates[1] ELSE ""

StepUnder == safe_float(StepDoc.underlyingValue)

\* The rows the iteration goes through, as a set: those of the chosen expiry
\* with a numeric strike, and none when the fetch or the parse raised or the
\* chain has no underlying value.
StepRows ==
    IF StepDoc.kind # "chain" \/ StepUnder = None
    THEN {}
    ELSE {r \in {RowOf(StepDoc.data[j], StepDoc.index, StepUnder) :
                     j \in 1..Len(StepDoc.data)} :
             r.strike # None /\ (StepUsed = "" \/ r.expiry = StepUsed)}

\* C7: for every key (symbol, expiry, strike, side), in every state that
\* premium-surge scans can reach, the stored history holds at most 5 prices
\* and they are the most recently appended ones, in arrival order.
C7_HistoryIsLastFive ==
    /\ DOMAIN PREV_SURGE_CACHE = DOMAIN surgeObs
    /\ \A k \in DOMAIN PREV_SURGE_CACHE : \A side \in {"CE", "PE"} :
          /\ Len(PREV_SURGE_CACHE[k][side]) <= 5
          /\ PREV_SURGE_CACHE[k][side] = LastN(surgeObs[k][side], 5)

\* A sixth price was appended under a key, and the price that left is held
\* no more.
C7_Witness ==
    \E k \in DOMAIN PREV_SURGE_CACHE :
        /\ Len(surgeObs[k]["CE"]) = 6
        /\ Len(PREV_SURGE_CACHE[k]["CE"]) = 5
        /\ \A i \in 1..5 : PREV_SURGE_CACHE[k]["CE"][i] # surgeObs[k]["CE"][1]

\* The event e of a step on symbol sym comes from one of its rows: the key
\* of that row held a prior price above 0.1, its strike is strictly out of
\* the money by the 10-unit buffer and its jump is at least min_pct; e shows
\* the prior price as it was appended (exact) or rounded to two decimals.
EventFromJump(e, rows, sym, used, under, exact) ==
    \E r \in rows :
        LET h == HistOf(PREV_SURGE_CACHE, sym, used, r.strike, e.side)
            log == HistOf(surgeObs, sym, used, r.strike, e.side)
            curr == LtpOf(r, e.side)
        IN /\ e.symbol = sym
           /\ e.expiry = used
           /\ e.strike = r.strike \div Milli
           /\ h # << >>
           /\ log # << >>
           /\ log[Len(log)] > 100
           /\ IF e.side = "CE" THEN r.strike > under + 10 * Milli
                               ELSE r.strike < under - 10 * Milli
           /\ curr # None
           /\ (curr - log[Len(log)]) * 100 >= surgeArgs.min_pct * log[Len(log)]
           /\ e.prev = IF exact THEN log[Len(log)] ELSE Round2(log[Len(log)])

\* Every event the step added to out comes from such a row.
NewEventsFromJumps(exact) ==
    LET rows == StepRows
        sym == StepSym
        used == StepUsed
        under == StepUnder
    IN \A i \in (Len(surgeOut) + 1)..Len(surgeOut') :
           EventFromJump(surgeOut'[i], rows, sym, used, under, exact)

\* C8 as stated: a surge event is emitted for a (strike, side) observation
\* only if the key's history already holds a prior price, that price exceeds
\* 0.1, the strike is strictly out of the money by the 10-unit buffer and the
\* jump is at least min_pct; and the event's previous price is the price most
\* recently appended for that key.
C8_EventShowsPriorPrice == [][SurgeSymbolStep => NewEventsFromJumps(TRUE)]_vars

\* C8, amended: the same conditions for emitting; the event's previous price
\* is the price most recently appended for that key rounded to two decimals.
C8_EventShowsRoundedPriorPrice == [][SurgeSymbolStep => NewEventsFromJumps(FALSE)]_vars

\* An event was just emitted whose previous price is the rounding of a prior
\* price that has more than two decimals.
C8_Witness ==
    /\ surgePc = "loop"
    /\ \E i \in 1..Len(surgeOut) :
          LET e == surgeOut[i]
              h == HistOf(PREV_SURGE_CACHE, e.symbol, e.expiry, e.strike * Milli, e.side)
          IN /\ Len(h) >= 2
             /\ h[Len(h) - 1] > 100
             /\ e.prev = Round2(h[Len(h) - 1])
             /\ e.prev # h[Len(h) - 1]
             /\ e.curr = Round2(h[Len(h)])

\* The side of row r carries a price that lines 763 and 796 let through.
LetThrough(r, side, under) ==
    /\ r.strike # 0
    /\ LtpOf(r, side) # None
    /\ LtpOf(r, side) # 0
    /\ IF side = "CE" THEN r.strike > under + 10 * Milli
                      ELSE r.strike < under - 10 * Milli

\* The step appended the price of that side of row r under its key.
AppendedBy(r, side, sym, used) ==
    /\ HistOf(surgeObs', sym, used, r.strike, side)
          = Append(HistOf(surgeObs, sym, used, r.strike, side), LtpOf(r, side))
    /\ HistOf(PREV_SURGE_CACHE', sym, used, r.strike, side)
          = LastN(Append(HistOf(PREV_SURGE_CACHE, sym, used, r.strike, side),
                         LtpOf(r, side)), 5)

\* The step left the history of that key as it was.
UntouchedBy(r, side, sym, used) ==
    /\ HistOf(surgeObs', sym, used, r.strike, side)
          = HistOf(surgeObs, sym, used, r.strike, side)
    /\ HistOf(PREV_SURGE_CACHE', sym, used, r.strike, side)
          = HistOf(PREV_SURGE_CACHE, sym, used, r.strike, side)

\* Every side of every row the step went through that carries a price was
\* appended.
PricedRowsAppended ==
    LET rows == StepRows
        sym == StepSym
        used == StepUsed
    IN \A r \in rows : \A side \in {"CE", "PE"} :
           (r.strike # 0 /\ LtpOf(r, side) # None) => AppendedBy(r, side, sym, used)

\* The sides let through were appended, the others left alone.
LetThroughRowsAppended ==
    LET rows == StepRows
        sym == StepSym
        used == StepUsed
        under == StepUnder
    IN \A r \in rows : \A side \in {"CE", "PE"} :
           IF LetThrough(r, side, under)
           THEN AppendedBy(r, side, sym, used)
           ELSE UntouchedBy(r, side, sym, used)

\* C9 as stated: every processed row that carries a last-traded price for a
\* side appends that price to the history of its key, whether or not a surge
\* event is emitted for it.
C9_EveryPricedRowAppends == [][SurgeSymbolStep => PricedRowsAppended]_vars

\* C9, amended: a processed row appends the price of a side exactly when that
\* price is not zero and the strike is strictly out of the money for that
\* side by the 10-unit buffer, whether or not a surge event is emitted for
\* it; any other row leaves the history of its key as it was.
C9_QualifyingRowAppends == [][SurgeSymbolStep => LetThroughRowsAppended]_vars

\* A symbol was just gone through that emitted no event, and yet the price of
\* its out-of-the-money call joined a history that already held one, while
\* the priced call inside the buffer has no history.
C9_Witness ==
    /\ surgePc = "loop"
    /\ surgeFeed # << >>
    /\ surgeOut = << >>
    /\ surgeArgs.symbols[Len(surgeFeed)] = "NIFTY"
    /\ surgeFeed[Len(surgeFeed)].kind = "chain"
    /\ LET h == HistOf(PREV_SURGE_CACHE, "NIFTY", E1, 1050000, "CE")
       IN /\ Len(h) >= 2
          /\ h[Len(h)] = surgeFeed[Len(surgeFeed)].data[1].CE.lastPrice
    /\ surgeFeed[Len(surgeFeed)].data[3].CE.lastPrice = 30000
    /\ HistOf(PREV_SURGE_CACHE, "NIFTY", E1, 1005000, "CE") = << >>

(***************************************************************************)
(* Claims about the signal engine inside a scan (SpecScan)                 *)
(***************************************************************************)
\* This step is one iteration of the symbol loop of scan_symbols that
\* appended a result.
ScanYieldStep ==
    /\ scanPc = "loop"
    /\ Len(scanFeed') = Len(scanFeed) + 1
    /\ Len(scanOut') = Len(scanOut) + 1

\* The rows that iteration worked on, and their underlying.
ScanStepRows ==
    LET sym == scanArgs.symbols[Len(scanFeed')]
        oc == scanFeed'[Len(scanFeed')]
    IN parse_rows(oc, ExpiryUsed(sym, oc, scanArgs.overrides))

\* Row r has an IV for the side, lies on the out-of-the-money side of the
\* underlying and its IV exceeds the ATM IV by the threshold at least.
BreaksOut(r, under, side, atm, thr) ==
    /\ IvOf(r, side) # None
    /\ atm # None
    /\ IF side = "CE" THEN r.strike >= under ELSE r.strike <= under
    /\ IvOf(r, side) - atm >= thr

\* hits are exactly the rows that break out, each with its rounded increment.
HitsAreBreakouts(hits, rows, under, side, atm, thr) ==
    /\ \A k \in 1..Len(hits) :
          \E j \in 1..Len(rows) :
              /\ BreaksOut(rows[j], under, side, atm, thr)
              /\ hits[k].strike = rows[j].strike
              /\ hits[k].iv = IvOf(rows[j], side)
              /\ hits[k].inc = Round2(IvOf(rows[j], side) - atm)
    /\ \A j \in 1..Len(rows) :
          BreaksOut(rows[j], under, side, atm, thr)
              => \E k \in 1..Len(hits) : /\ hits[k].strike = rows[j].strike
                                         /\ hits[k].iv = IvOf(rows[j], side)
    /\ Len(hits) = Cardinality({j \in 1..Len(rows) : BreaksOut(rows[j], under, side, atm, thr)})

\* C11: for a given side the breakout hits are exactly the rows that have an
\* IV for that side, lie on the out-of-the-money side of the underlying (CE:
\* strike >= underlying; PE: strike <= underlying) and satisfy
\* iv - atmIV >= threshold: no hit on the wrong side, no qualifying row missing.
C11_HitsAreTheBreakouts ==
    [][ScanYieldStep =>
          \A parsed \in {ScanStepRows} :
          \A atm_ce \in {nearest_strike_iv(parsed.rows, parsed.underlying, "CE")} :
          \A atm_pe \in {nearest_strike_iv(parsed.rows, parsed.underlying, "PE")} :
              /\ scanArgs.side \in {"ALL", "CE"}
                   => HitsAreBreakouts(scanOut'[Len(scanOut')].ce_hits, parsed.rows,
                                       parsed.underlying, "CE", atm_ce.iv, scanArgs.thr)
              /\ scanArgs.side \in {"ALL", "PE"}
                   => HitsAreBreakouts(scanOut'[Len(scanOut')].pe_hits, parsed.rows,
                                       parsed.underlying, "PE", atm_pe.iv, scanArgs.thr)]_vars

\* A scan at threshold 5.0 found, against an ATM IV of 15.0, a call hit of
\* increment 6.5, and its put hits leave out the strikes above the
\* underlying whose put IV is 9.0 and more over the ATM put IV.
C11_Witness ==
    \E i \in 1..Len(scanOut) :
        /\ scanArgs.thr = 5000
        /\ scanArgs.side = "ALL"
        /\ scanOut[i].atm_ce_iv = 15000
        /\ \E k \in 1..Len(scanOut[i].ce_hits) : scanOut[i].ce_hits[k].inc = 6500
        /\ Len(scanOut[i].pe_hits) = 2
        /\ \A k \in 1..2 : scanOut[i].pe_hits[k].strike < 1000000

(***************************************************************************)
(* Claims about the normalizer and the signal engine (SpecEngine)          *)
(***************************************************************************)
\* The indices of the rows that have an IV for the side.
WithIv(rows, side) == {j \in 1..Len(rows) : IvOf(rows[j], side) # None}

\* C12: nearest_strike_iv returns the strike and IV of a row that minimises
\* |strike - underlying| among the rows having an IV for the side, the lowest
\* strike among equidistant ones, and an undefined result when no row has an
\* IV for the side.
C12_NearestIsLowestOfNearest ==
    \A side \in {"CE", "PE"} :
        engNearest[side].called =>
            IF WithIv(engSnap.rows, side) = {}
            THEN engNearest[side].strike = None /\ engNearest[side].iv = None
            ELSE \E j \in WithIv(engSnap.rows, side) :
                    /\ engNearest[side].strike = engSnap.rows[j].strike
                    /\ engNearest[side].iv = IvOf(engSnap.rows[j], side)
                    /\ \A k \in WithIv(engSnap.rows, side) :
                          \/ Abs(engSnap.rows[j].strike - engSnap.underlying)
                                < Abs(engSnap.rows[k].strike - engSnap.underlying)
                          \/ /\ Abs(engSnap.rows[j].strike - engSnap.underlying)
                                   = Abs(engSnap.rows[k].strike - engSnap.underlying)
                             /\ engSnap.rows[j].strike <= engSnap.rows[k].strike

\* Two strikes with a call IV are equally near the underlying, the higher one
\* first in the document, and the lower one was returned; the put side of
\* another call had no IV at all.
C12_Witness ==
    /\ engDoc = DocTie
    /\ engNearest["CE"].called
    /\ engNearest["CE"].strike = 950000
    /\ engDoc.data[1].strikePrice = 1050000
    /\ engDoc.data[1].CE.impliedVolatility # None
    /\ engNearest["PE"].called

\* The rows at the resolved ATM strike carry no price for the side.
LegMissing(rows, atm_strike, side) ==
    \A j \in 1..Len(rows) :
        rows[j].strike = atm_strike => LtpOf(rows[j], side) \in {None, 0}

\* C13: get_straddle_info returns all four fields undefined whenever the CE
\* or the PE LTP is missing at the resolved ATM strike, and otherwise a price
\* equal to CE LTP + PE LTP of that strike.
C13_StraddleAllOrPrice ==
    engStraddle.kind # "none" =>
        IF engSnap.rows = << >> \/ engSnap.underlying = None
        THEN engStraddle = NoStraddle
        ELSE \A atm \in {AtmStrike(engSnap.rows, engSnap.underlying)} :
                IF LegMissing(engSnap.rows, atm, "CE") \/ LegMissing(engSnap.rows, atm, "PE")
                THEN engStraddle = NoStraddle
                ELSE /\ engStraddle.kind = "value"
                     /\ engStraddle.strike = atm
                     /\ \E j, k \in 1..Len(engSnap.rows) :
                           /\ engSnap.rows[j].strike = atm
                           /\ engSnap.rows[k].strike = atm
                           /\ engStraddle.price = engSnap.rows[j].CE_ltp + engSnap.rows[k].PE_ltp

\* C14: the rows parse_rows returns are sorted non-decreasing by strike, none
\* has an undefined strike, and with a chosen expiry every row has it.
C14_RowsSortedAndFiltered ==
    engSnap.kind = "value" =>
        /\ \A j \in 1..Len(engSnap.rows) : engSnap.rows[j].strike # None
        /\ \A j \in 1..(Len(engSnap.rows) - 1) :
              engSnap.rows[j].strike <= engSnap.rows[j + 1].strike
        /\ engExpiry # "" => \A j \in 1..Len(engSnap.rows) : engSnap.rows[j].expiry = engExpiry

\* A document of 7 items, out of strike order, one with a strike that is not
\* a number and one of another expiry, came back as 5 rows.
C14_Witness ==
    /\ engDoc = DocMain
    /\ engExpiry = E1
    /\ engSnap.kind = "value"
    /\ Len(engDoc.data) = 7
    /\ engDoc.data[1].strikePrice > engDoc.data[2].strikePrice
    /\ Len(engSnap.rows) = 5

\* C15: parse_rows returns the empty snapshot and does not fail for every
\* document whose top-level structure is missing or malformed: absent or
\* empty, without "records", or with a "records" entry that is not a map.
C15_MalformedGivesEmpty ==
    (engSnap.kind # "none" /\ engDoc.kind \in {"falsy", "norecords", "badrecords"})
        => engSnap = [kind |-> "value", rows |-> << >>, expiries |-> << >>,
                       underlying |-> None, symbol_name |-> ""]

\* The tier of a pct given in thousandths of a percent.
TierOf(pct) ==
    IF pct >= 1000 * Milli THEN "NUCLEAR"
    ELSE IF pct >= 500 * Milli THEN "EXTREME"
    ELSE IF pct >= 300 * Milli THEN "STRONG"
    ELSE "GOOD"

\* C16 as stated: every emitted surge event carries the tier determined by
\* its pct alone: NUCLEAR iff pct >= 1000, EXTREME iff 500 <= pct < 1000,
\* STRONG iff 300 <= pct < 500, GOOD otherwise.
C16_TierOfEventPct ==
    \A i \in 1..Len(surgeOut) : surgeOut[i].strength = TierOf(surgeOut[i].pct)

\* The event e of a step on symbol sym comes from a row whose jump from the
\* last appended price, not rounded, has the tier e carries, and e carries
\* that jump rounded to one decimal.
EventTierFromJump(e, rows, sym, used) ==
    \E r \in rows :
        \E log \in {HistOf(surgeObs, sym, used, r.strike, e.side)} :
            /\ e.strike = r.strike \div Milli
            /\ log # << >>
            /\ LtpOf(r, e.side) # None
            /\ e.pct = 100 * RoundDiv((LtpOf(r, e.side) - log[Len(log)]) * 1000, log[Len(log)])
            /\ e.strength = "NUCLEAR"
                  <=> (LtpOf(r, e.side) - log[Len(log)]) * 100 >= 1000 * log[Len(log)]
            /\ e.strength = "EXTREME"
                  <=> /\ (LtpOf(r, e.side) - log[Len(log)]) * 100 >= 500 * log[Len(log)]
                      /\ (LtpOf(r, e.side) - log[Len(log)]) * 100 < 1000 * log[Len(log)]
            /\ e.strength = "STRONG"
                  <=> /\ (LtpOf(r, e.side) - log[Len(log)]) * 100 >= 300 * log[Len(log)]
                      /\ (LtpOf(r, e.side) - log[Len(log)]) * 100 < 500 * log[Len(log)]
            /\ e.strength = "GOOD"
                  <=> (LtpOf(r, e.side) - log[Len(log)]) * 100 < 300 * log[Len(log)]

\* C16, amended: every emitted surge event carries the tier determined by
\* its pct before rounding (NUCLEAR iff >= 1000, EXTREME iff in [500, 1000),
\* STRONG iff in [300, 500), GOOD otherwise); the pct the event carries is
\* that value rounded to one decimal.
C16_TierOfUnroundedPct ==
    [][SurgeSymbolStep =>
          \A rows \in {StepRows} :
              \A i \in (Len(surgeOut) + 1)..Len(surgeOut') :
                  EventTierFromJump(surgeOut'[i], rows, StepSym, StepUsed)]_vars

\* A scan emitted a call event of pct 1095.2 with tier NUCLEAR and a put event
\* that carries pct 1000.0 with tier EXTREME.
C16_Witness ==
    /\ \E i \in 1..Len(surgeOut) :
          /\ surgeOut[i].pct = 1095200
          /\ surgeOut[i].strength = "NUCLEAR"
    /\ \E i \in 1..Len(surgeOut) :
          /\ surgeOut[i].pct = 1000000
          /\ surgeOut[i].strength = "EXTREME"

(***************************************************************************)
(* Claims about the ranking of surge events (SpecRank)                     *)
(***************************************************************************)
\* C17: the list returned by the premium-surge scan has at most 50 events in
\* non-increasing composite score, and every NUCLEAR event scores strictly
\* higher than, and is ranked before, every event that is not NUCLEAR.
C17_NuclearOutranks ==
    rankOut.kind = "value" =>
        /\ Len(rankOut.data) <= 50
        /\ \A i \in 1..(Len(rankOut.data) - 1) :
              scoreBomb(rankOut.data[i]) >= scoreBomb(rankOut.data[i + 1])
        /\ \A i, j \in 1..Len(rankOut.data) :
              (rankOut.data[i].strength = "NUCLEAR" /\ rankOut.data[j].strength # "NUCLEAR")
                  => scoreBomb(rankOut.data[i]) > scoreBomb(rankOut.data[j]) /\ i < j
        /\ \A i, j \in 1..Len(rankIn) :
              (rankIn[i].strength = "NUCLEAR" /\ rankIn[j].strength # "NUCLEAR")
                  => scoreBomb(rankIn[i]) > scoreBomb(rankIn[j])

\* 52 events were cut to 50, and a NUCLEAR event without any other bonus
\* stands before an EXTREME one of the same carried pct that has them all.
C17_Witness ==
    /\ Len(rankIn) = 52
    /\ Len(rankOut.data) = 50
    /\ \E i, j \in 1..50 :
          /\ i < j
          /\ rankOut.data[i].strength = "NUCLEAR"
          /\ rankOut.data[i].type = "OTM_BOMB"
          /\ rankOut.data[j].strength = "EXTREME"
          /\ rankOut.data[j].type = "INSTITUTIONAL_BOMB"
          /\ rankOut.data[i].pct = rankOut.data[j].pct

\* The event earns the bonus of line 834.
SpeedBonus(x) == 2 * x.speed > 3 * x.pct

\* C18 as stated: for any two events with the same tier, the same speed and
\* the same type, the event with the larger pct never has the smaller score.
C18_ScoreMonotonicInPct ==
    \A i, j \in 1..Len(rankIn) :
        (/\ rankIn[i].strength = rankIn[j].strength
         /\ rankIn[i].speed = rankIn[j].speed
         /\ rankIn[i].type = rankIn[j].type
         /\ rankIn[i].pct > rankIn[j].pct)
            => scoreBomb(rankIn[i]) >= scoreBomb(rankIn[j])

\* C18, amended: for any two events with the same tier and the same type that
\* both earn or both miss the speed bonus (speed > pct * 1.5), the event with
\* the larger pct has the larger score and is never ranked after the other.
C18_ScoreMonotonicAmongSameBonus ==
    /\ \A i, j \in 1..Len(rankIn) :
          (/\ rankIn[i].strength = rankIn[j].strength
           /\ rankIn[i].type = rankIn[j].type
           /\ SpeedBonus(rankIn[i]) <=> SpeedBonus(rankIn[j])
           /\ rankIn[i].pct > rankIn[j].pct)
              => scoreBomb(rankIn[i]) > scoreBomb(rankIn[j])
    /\ \A i, j \in 1..Len(rankOut.data) :
          (/\ rankOut.data[i].strength = rankOut.data[j].strength
           /\ rankOut.data[i].type = rankOut.data[j].type
           /\ SpeedBonus(rankOut.data[i]) <=> SpeedBonus(rankOut.data[j])
           /\ rankOut.data[i].pct > rankOut.data[j].pct)
              => i < j

\* Two events of the same tier, speed and type that both earn the speed
\* bonus came in with the smaller pct first and were returned the other way.
C18_Witness ==
    /\ Len(rankIn) = 2
    /\ rankOut.kind = "value"
    /\ rankIn[1].strength = rankIn[2].strength
    /\ rankIn[1].speed = rankIn[2].speed
    /\ rankIn[1].type = rankIn[2].type
    /\ SpeedBonus(rankIn[1])
    /\ SpeedBonus(rankIn[2])
    /\ rankIn[1].pct < rankIn[2].pct
    /\ rankOut.data = <<rankIn[2], rankIn[1]>>

(***************************************************************************)
(* Claims about the strategy classification (SpecScan)                     *)
(***************************************************************************)
\* The increments of all the hits of a result.
IncsOf(r) ==
    {r.ce_hits[k].inc : k \in 1..Len(r.ce_hits)} \cup {r.pe_hits[k].inc : k \in 1..Len(r.pe_hits)}

\* s is the largest of a non-empty set of increments.
LargestOf(s, incs) == s \in incs /\ \A x \in incs : x <= s

\* The strategy of result r is the row of the decision table its hits select.
FollowsDecisionTable(r) ==
    /\ (r.ce_hits # << >> /\ r.pe_hits = << >>)
          => /\ r.strategy.bias = "Bullish"
             /\ r.strategy.strength = r.ce_hits[1].inc
    /\ (r.ce_hits = << >> /\ r.pe_hits # << >>)
          => /\ r.strategy.bias = "Bearish"
             /\ r.strategy.strength = r.pe_hits[1].inc
    /\ (r.ce_hits # << >> /\ r.pe_hits # << >>)
          => /\ r.strategy.bias = "Vol Expansion"
             /\ r.strategy.strength >= r.ce_hits[1].inc
             /\ r.strategy.strength >= r.pe_hits[1].inc
             /\ r.strategy.strength \in {r.ce_hits[1].inc, r.pe_hits[1].inc}
    /\ (r.ce_hits # << >> \/ r.pe_hits # << >>)
          => LargestOf(r.strategy.strength, IncsOf(r))
    /\ (r.ce_hits = << >> /\ r.pe_hits = << >>)
          => /\ r.strategy.bias = "Neutral"
             /\ r.strategy.strength = 0

\* C19: the strategy of every scan result follows the decision table: CE hits
\* only gives Bullish with the top CE increment as strength, PE hits only
\* gives Bearish with the top PE increment, both gives Vol Expansion with the
\* maximum of the two top increments, which is the largest increment over all
\* the hits, neither gives Neutral with strength 0.
C19_StrategyFollowsTable ==
    \A k \in 1..Len(scanOut) : FollowsDecisionTable(scanOut[k])

\* One scan returned a Vol Expansion result whose call side tops its put
\* side and has several hits, and a Neutral one.
C19_Witness ==
    /\ scanPc = "done"
    /\ \E k \in 1..Len(scanOut) :
          /\ scanOut[k].strategy.bias = "Vol Expansion"
          /\ Len(scanOut[k].ce_hits) > 1
          /\ scanOut[k].ce_hits[1].inc > scanOut[k].pe_hits[1].inc
          /\ scanOut[k].strategy.strength = scanOut[k].ce_hits[1].inc
    /\ \E k \in 1..Len(scanOut) : scanOut[k].strategy.bias = "Neutral"

(***************************************************************************)
(* Claims about the strategy/LTP spread scan (SpecLtp)                     *)
(***************************************************************************)
\* This step is one iteration of the symbol loop of the spread scan that
\* appended an entry.
LtpYieldStep ==
    /\ ltpPc = "loop"
    /\ Len(ltpFeed') = Len(ltpFeed) + 1
    /\ Len(ltpOut') = Len(ltpOut) + 1

\* The rows that iteration worked on.
LtpStepRows ==
    LET sym == ltpArgs.symbols[Len(ltpFeed')]
        oc == ltpFeed'[Len(ltpFeed')]
    IN parse_rows(oc, ExpiryUsed(sym, oc, ltpArgs.overrides)).rows

\* The lot-weighted net premium of match m, from the prices of the rows.
MatchNet(m, rows) ==
    MapLtp(rows, m.buy_strike, m.buy_side) * ltpArgs.buy_lots
        - MapLtp(rows, m.sell_strike, m.sell_side) * ltpArgs.sell_lots

\* C20 as stated: every match reported by the spread scan has a lot-weighted
\* net premium net = buy_ltp * buy_lots - sell_ltp * sell_lots with
\* target - tolerance <= net <= target + tolerance.
C20_NetWithinBand ==
    [][LtpYieldStep =>
          \A rows \in {LtpStepRows} :
          \A m \in {ltpOut'[Len(ltpOut')].matches[k] :
                       k \in 1..Len(ltpOut'[Len(ltpOut')].matches)} :
              \A net \in {MatchNet(m, rows)} :
                  /\ ltpArgs.target - ltpArgs.tolerance <= net
                  /\ net <= ltpArgs.target + ltpArgs.tolerance]_vars

\* C20, amended: every match reported by the spread scan has a lot-weighted
\* net premium whose absolute value lies within target +/- tolerance, and the
\* match reports that net, with its sign, rounded to 2 decimals.
C20_AbsNetWithinBand ==
    [][LtpYieldStep =>
          \A rows \in {LtpStepRows} :
          \A m \in {ltpOut'[Len(ltpOut')].matches[k] :
                       k \in 1..Len(ltpOut'[Len(ltpOut')].matches)} :
              \A net \in {MatchNet(m, rows)} :
                  /\ ltpArgs.target - ltpArgs.tolerance <= Abs(net)
                  /\ Abs(net) <= ltpArgs.target + ltpArgs.tolerance
                  /\ m.net_per_lot = Round2(net)]_vars

\* A scan with the default lots and band returned an entry with a match of
\* negative net and a match of positive net.
C20_Witness ==
    /\ ltpPc = "done"
    /\ ltpArgs.target = 6000
    /\ ltpArgs.tolerance = 1000
    /\ \E e \in 1..Len(ltpOut) :
          /\ \E k \in 1..Len(ltpOut[e].matches) : ltpOut[e].matches[k].net_per_lot < 0
          /\ \E k \in 1..Len(ltpOut[e].matches) : ltpOut[e].matches[k].net_per_lot > 0

(***************************************************************************)
(* Further claims about the realtime sessions (Spec)                       *)
(***************************************************************************)
\* C22: a loop whose client sent "stop" and then "start" before the loop's
\* next check of the running flag exits at that check: it is never past the
\* check beside another live loop of the same client.
C22_StoppedLoopNotBesideNew ==
    \A l \in DOMAIN loops :
        (loops[l].signal = "stop" /\ loops[l].pc = "scan")
            => LiveLoops(loops[l].sid) = {l}

\* C27: a loop ends only at a check of the running flag that finds the flag
\* cleared or the record gone; a scan or a publish that raises is caught, the
\* loop sleeps max(1, interval) seconds and goes to its next check.
C27_LoopEndsOnlyByFlag ==
    [][\A l \in DOMAIN loops :
          /\ (loops[l].pc # "done" /\ loops'[l].pc = "done")
                => (loops[l].pc = "check" /\ ~Running(loops[l].sid))
          /\ (loops[l].pc = "scan" /\ loops'[l].pc # "scan")
                => /\ loops'[l].pc = "check"
                   /\ \/ Publishes(l) /\ loops'[l].published
                      \/ loops'[l].slept = Max(1, loops[l].interval)]_vars

\* A loop that had published met a failure, slept max(1, -1) = 1 second,
\* passed its next check and is scanning again.
C27_Witness ==
    \E l \in DOMAIN loops :
        /\ loops[l].published
        /\ loops[l].interval = -1
        /\ loops[l].slept = 1
        /\ loops[l].pc = "scan"

(***************************************************************************)
(* Further claims about get_json (SpecFetch)                               *)
(***************************************************************************)
\* Entry i of the log is a request that ended in status 401 or 403 or in a
\* network-level failure.
NeedsPrime(i) == fetchLog[i].ev = "get" /\ fetchLog[i].status \in {401, 403, 0}

\* C24: within one fetch, an attempt that ends in status 401 or 403 or in a
\* network-level failure is followed by the re-priming step before anything
\* else, the next attempt included; a re-priming that fails is followed by
\* the delay like one that succeeds, and a fetch none of whose attempts is
\* answered 200 ends exhausted after 3 attempts, whatever re-priming did.
C24_ReprimesBeforeRetry ==
    /\ \A i \in 1..Len(fetchLog) :
          NeedsPrime(i) =>
             /\ i + 2 <= Len(fetchLog)
             /\ fetchLog[i + 1].ev \in PrimeOutcomes
             /\ fetchLog[i + 2].ev = "sleep"
    /\ (fpc \in {"returned", "raised", "failed"}
          /\ \A i \in 1..Len(Requests) : Requests[i].status # 200)
             => /\ fpc = "failed"
                /\ Len(Requests) = Retries
    /\ fpc = "loop" => attempt = Len(Requests)

\* The fetch ended exhausted after a 401, a network failure and a 403, the
\* re-priming having failed after the first two.
C24_Witness ==
    /\ fpc = "failed"
    /\ Len(fetchLog) = 9
    /\ fetchLog[1].status = 401
    /\ fetchLog[2].ev = "prime_failed"
    /\ fetchLog[4].status = 0
    /\ fetchLog[5].ev = "prime_failed"
    /\ fetchLog[7].status = 403
    /\ fetchLog[8].ev = "primed"

(***************************************************************************)
(* Further claims about the surge detector (SpecSurge)                     *)
(***************************************************************************)
\* The speed of event e of a step on symbol sym is 0 when the history of its
\* key held fewer than 3 prices before the step, and else the jump, in
\* percent, from the oldest of the last 3 of them.
SpeedFromLastThree(e, rows, sym, used) ==
    \E r \in rows :
        \E h \in {HistOf(PREV_SURGE_CACHE, sym, used, r.strike, e.side)} :
            /\ e.strike = r.strike \div Milli
            /\ LtpOf(r, e.side) # None
            /\ e.speed = IF Len(h) < 3 THEN 0
                         ELSE PctRounded(LtpOf(r, e.side), h[Len(h) - 2])

\* C25: the speed of a surge observation is 0 when the key has fewer than 3
\* prior observations; otherwise it is (current - p) / p * 100 with p the
\* oldest of the last 3 observations, also when the history holds 4 or 5.
C25_SpeedOverLastThree ==
    [][SurgeSymbolStep =>
          \A rows \in {StepRows} :
              \A i \in (Len(surgeOut) + 1)..Len(surgeOut') :
                  SpeedFromLastThree(surgeOut'[i], rows, StepSym, StepUsed)]_vars

(***************************************************************************)
(* Further claims about the spread scan (SpecLtp)                          *)
(***************************************************************************)
\* A step of the spread scan that visits one symbol.
LtpSymbolStep == ltpPc = "loop" /\ Len(ltpFeed') = Len(ltpFeed) + 1

\* The visit of sym fails somewhere other than in get_straddle_info: the
\* fetch, parse_rows, or the distance of a strike from an underlying of 0.
RaisesApartFromStraddle(sym, oc, args) ==
    \/ oc.kind = "fetch_failed"
    \/ parse_rows_raises(oc)
    \/ \E parsed \in {parse_rows(oc, ExpiryUsed(sym, oc, args.overrides))} :
          /\ parsed.underlying = 0
          /\ \E j \in 1..Len(parsed.rows) : parsed.rows[j].strike # 0

\* C26: get_straddle_info never fails, also when the ATM legs have an LTP but
\* no IV, so the spread scan never omits a symbol because of the straddle
\* computation: a symbol whose visit fails nowhere else gets the entry its
\* matches give.
C26_StraddleNeverDropsSymbol ==
    [][LtpSymbolStep =>
          \A sym \in {ltpArgs.symbols[Len(ltpFeed) + 1]} :
              \A oc \in {ltpFeed'[Len(ltpFeed')]} :
                  ~RaisesApartFromStraddle(sym, oc, ltpArgs)
                      => ltpOut' = ltpOut \o LtpEntry(sym, oc, ltpArgs)]_vars

(***************************************************************************)
(* Claims about the breakout route (SpecBreakout)                          *)
(***************************************************************************)
\* The payload has an empty symbol list, a negative threshold, a threshold
\* that is no number (a text that is none, a list), or a side that is given
\* and is none of ALL, CE, PE in any letter case.
InvalidBreakoutRequest(req) ==
    \/ req.symbols = << >>
    \/ req.threshold.kind = "number" /\ req.threshold.val < 0
    \/ req.threshold.kind = "text" /\ req.threshold.text = "abc"
    \/ req.threshold.kind = "list"
    \/ req.side.kind = "text" /\ req.side.text = "xx"
    \/ req.side.kind = "number" /\ req.side.val # 0

\* C21: a breakout-scan request with an empty symbol list, a negative or
\* non-numeric threshold, or a side outside {ALL, CE, PE} is answered
\* immediately with a client-input error (HTTP 400), and no upstream fetch
\* is attempted for it.
C21_InvalidRequestRejected ==
    (boPc # "idle" /\ InvalidBreakoutRequest(boReq))
        => /\ boPc = "answered"
           /\ boAnswer.status = 400
           /\ scanPc = "idle"
           /\ scanFeed = << >>

(***************************************************************************)
(* Claims about concurrent surge scans (SpecRace)                          *)
(***************************************************************************)
\* The CE history the strike has in the cache now.
RaceHistory == IF raceCache = 0 THEN << >> ELSE raceHeap[raceCache]

\* What the request of thread t gives when it runs alone on the history hist.
AloneOut(t, hist) ==
    IF Fires(hist, raceLocal[t].ce, raceLocal[t].min_pct)
    THEN <<SurgeEvent("NIFTY", E1, RaceStrike, "CE", hist, raceLocal[t].ce, None)>>
    ELSE << >>

\* The outcome equals that of thread a's request followed by thread b's.
AsIfInOrder(a, b) ==
    LET afterA == DequeAppend(raceStart, raceLocal[a].ce)
    IN /\ raceLocal[a].out = AloneOut(a, raceStart)
       /\ raceLocal[b].out = AloneOut(b, afterA)
       /\ RaceHistory = DequeAppend(afterA, raceLocal[b].ce)

\* C23: concurrent premium-surge scans that touch the same key are
\* serialized: once both are over, the history of the key and the events
\* emitted equal those of some sequential order of the scans, so no appended
\* observation is lost or overwritten and each scan's previous price is the
\* last price appended before its own.
C23_ScansSerialized ==
    (\A t \in Threads : racePc[t] = "done")
        => \E a \in Threads : \E b \in Threads \ {a} : AsIfInOrder(a, b)

====
